---- MODULE Spec2Model ----
(***************************************************************************)
(* Rabbithole: the discovery state machine (src/src/state.js), the player   *)
(* that drives it (src/src/index.js) and the chart player that shows a     *)
(* track (src/src/player/webamp-chartifacts.js).                           *)
(*                                                                         *)
(* JavaScript strings are modelled as sequences of one-character strings,  *)
(* so that normalizeSlug is computed character by character.  The value    *)
(* null is the one-element sequence <<"null">>, which no string equals.    *)
(* A JavaScript Set is a TLA+ set (the program only uses has/add/delete,   *)
(* so insertion order is unobservable); Array.from(set) lists it in a     *)
(* fixed order and new Set(array) collects the elements again.             *)
(***************************************************************************)
EXTENDS Integers, Sequences, FiniteSets, Bags, TLC

VARIABLES
    followingMusician,  \* state.js:13
    playedSongs,        \* state.js:14
    currentSongSlug,    \* state.js:15
    followMode,         \* state.js:16
    history,            \* state.js:18
    nextSong,           \* state.js:19
    queue,              \* state.js:20
    storageItem,        \* localStorage['rabbitholeState']
    pending,            \* promises in flight (awaited collaborator calls)
    currentTrack,       \* index.js:34
    last,               \* observation of the most recent step
    trackData,              \* webamp-chartifacts.js:16
    _processedTimeline,     \* webamp-chartifacts.js:947
    _cachedSongParts,       \* webamp-chartifacts.js:643
    allMomentTimes,         \* webamp-chartifacts.js:30
    upcomingMomentTimes,    \* webamp-chartifacts.js:31
    currentSolo,            \* webamp-chartifacts.js:26
    recentSoloists,         \* webamp-chartifacts.js:36
    musicianWeights,        \* webamp-chartifacts.js:35
    timeUpdateInterval,     \* webamp-chartifacts.js:28: the interval is running
    triggered,          \* the moments handed to triggerMoment since the track was loaded
    shown               \* observation of the most recent step of the chart player

rabbitholeVars == <<followingMusician, playedSongs, currentSongSlug, followMode,
                    history, nextSong, queue, storageItem, pending, currentTrack,
                    last>>

chartVars == <<trackData, _processedTimeline, _cachedSongParts, allMomentTimes,
               upcomingMomentTimes, currentSolo, recentSoloists, musicianWeights,
               timeUpdateInterval, triggered, shown>>

vars == <<rabbitholeVars, chartVars>>

stateVars == <<followingMusician, playedSongs, currentSongSlug, followMode,
               history, nextSong, queue>>

----------------------------------------------------------------------------
(* Bounds of the model *)

MaxHistory == 2
MaxQueue == 2
MaxPending == 2

----------------------------------------------------------------------------
(* JavaScript values *)

null == <<"null">>

Truthy(v) == v # null /\ v # <<>>

Same == <<"s", "a", "m", "e">>
Random == <<"r", "a", "n", "d", "o", "m">>

\* The record that stands for a null nextSong / a null return of goBack.
NoSong == [songSlug |-> null, songTitle |-> null, viaMusician |-> null]

NoSongsQueued == <<"N", "o", " ", "s", "o", "n", "g", "s", " ", "q", "u", "e", "u", "e", "d">>

----------------------------------------------------------------------------
(* The host's data: musicians, the catalog, the connections the collaborator
   may answer with *)

P == <<"P">>
Q == <<"Q">>
Musicians == {P, Q}

a == <<"a">>
b == <<"b">>
c == <<"c">>
z == <<"z">>

\* getCatalog(): slug -> track record
Catalog ==
    (a :> [title |-> <<"A">>, ensemble |-> {P, Q}]) @@
    (b :> [title |-> <<"B">>, ensemble |-> {P}]) @@
    (c :> [title |-> <<"C">>, ensemble |-> {P, Q}])

\* Slugs a caller may name: the catalog's and one the catalog does not hold.
Slugs == DOMAIN Catalog \cup {z}

\* catalog[slug] is truthy
InCatalog(slug) == slug \in DOMAIN Catalog

\* Connection lists ({song: title} entries, by title) a lookup may return.
ConnectionLists ==
    { <<>>,
      << <<"A">>, <<"B">>, <<"C">> >>,
      << <<"a", "'">>, <<"B">> >>,
      << <<"Z", " ", " ", "z">> >>,
      << <<"C">> >>,
      << <<"A">>, <<"Z">> >> }

\* What awaiting getConnections(musician) can produce.
ConnectionResponses ==
    { [t |-> "null", items |-> <<>>], [t |-> "throws", items |-> <<>>] } \cup
    { [t |-> "list", items |-> l] : l \in ConnectionLists }

----------------------------------------------------------------------------
(* normalizeSlug *)

ToLower(ch) ==
    CASE ch = "A" -> "a" [] ch = "B" -> "b" [] ch = "C" -> "c"
      [] ch = "Z" -> "z" [] ch = "P" -> "p" [] ch = "Q" -> "q"
      [] OTHER -> ch

ToLowerCase(s) == [i \in 1..Len(s) |-> ToLower(s[i])]

IsWhitespace(ch) == ch = " "

RECURSIVE SkipWhitespace(_)
SkipWhitespace(s) ==
    IF s # <<>> /\ IsWhitespace(Head(s)) THEN SkipWhitespace(Tail(s)) ELSE s

\* replace(/\s+/g, '-')
RECURSIVE ReplaceWhitespaceRuns(_)
ReplaceWhitespaceRuns(s) ==
    IF s = <<>> THEN <<>>
    ELSE IF IsWhitespace(Head(s))
         THEN <<"-">> \o ReplaceWhitespaceRuns(SkipWhitespace(s))
         ELSE <<Head(s)>> \o ReplaceWhitespaceRuns(Tail(s))

\* replace(/'/g, '')
RemoveApostrophes(s) == SelectSeq(s, LAMBDA ch : ch # "'")

normalizeSlug(title) == RemoveApostrophes(ReplaceWhitespaceRuns(ToLowerCase(title)))

----------------------------------------------------------------------------
(* Persistence: the JSON text under the key 'rabbitholeState' is modelled by
   the value it parses to. *)

JUndefined == [j |-> "undefined"]
JNull == [j |-> "null"]
JNum(n) == [j |-> "num", n |-> n]
JStr(s) == [j |-> "str", s |-> s]
JArr(items) == [j |-> "arr", items |-> items]
JObj(fields) == [j |-> "obj", fields |-> fields]

\* A JavaScript string or null as a JSON value, and back.
ToJson(v) == IF v = null THEN JNull ELSE JStr(v)

RECURSIVE SetToSeq(_)
SetToSeq(S) ==
    IF S = {} THEN <<>>
    ELSE LET x == CHOOSE y \in S : TRUE IN <<x>> \o SetToSeq(S \ {x})

\* Array.from(set)
ArrayFrom(S) == SetToSeq(S)

Absent == [t |-> "absent"]
Empty == [t |-> "empty"]
Garbage == [t |-> "garbage"]
Stored(v) == [t |-> "json", v |-> v]

\* The item saveToStorage writes: JSON.stringify(toSave), state.js:39-45
saveToStorage(following, played, current, mode) ==
    Stored(JObj(
        [followingMusician |-> ToJson(following),
         playedSongs |-> LET array == ArrayFrom(played)
                         IN JArr([i \in 1..Len(array) |-> JStr(array[i])]),
         currentSongSlug |-> ToJson(current),
         followMode |-> JStr(mode)]))

\* parsed.name
Property(v, name) ==
    IF v.j = "obj" /\ name \in DOMAIN v.fields THEN v.fields[name] ELSE JUndefined

JTruthy(v) ==
    CASE v.j = "undefined" -> FALSE
      [] v.j = "null" -> FALSE
      [] v.j = "num" -> v.n # 0
      [] v.j = "str" -> v.s # <<>>
      [] OTHER -> TRUE

\* Does new Set(v) throw?  (numbers and plain objects are not iterable)
Iterable(v) == v.j \in {"arr", "str"}

\* new Set(v) for an array of strings or a string (iterated by character)
NewSet(v) ==
    IF v.j = "arr" THEN {v.items[i].s : i \in 1..Len(v.items)}
    ELSE {<<v.s[i]>> : i \in 1..Len(v.s)}

\* loadFromStorage applied to the fields the constructor has just set:
\* the values of playedSongs and followMode it leaves behind.
loadFromStorage(item) ==
    LET fresh == [playedSongs |-> {}, followMode |-> Same] IN
    IF item.t # "json" THEN fresh               \* falsy item, or JSON.parse throws
    ELSE IF item.v.j = "null" THEN fresh        \* parsed.playedSongs throws
    ELSE LET ps == Property(item.v, "playedSongs")
             arg == IF JTruthy(ps) THEN ps ELSE JArr(<<>>)
             fm == Property(item.v, "followMode")
         IN IF ~Iterable(arg) THEN fresh        \* new Set(...) throws
            ELSE [playedSongs |-> NewSet(arg),
                  followMode |-> IF JTruthy(fm) THEN fm.s ELSE Same]

\* What the key may hold when a page loads.
InitialStorage ==
    { Absent, Empty, Garbage,
      Stored(JNull), Stored(JNum(5)), Stored(JStr(<<"a", "b">>)), Stored(JArr(<<>>)),
      Stored(JObj(<<>>)),
      Stored(JObj([playedSongs |-> JNum(5)])),
      Stored(JObj([playedSongs |-> JObj(<<>>)])),
      Stored(JObj([playedSongs |-> JStr(<<"a", "b">>)])),
      Stored(JObj([playedSongs |-> JArr(<<JStr(a)>>)])),
      saveToStorage(P, {a}, b, Random) }

----------------------------------------------------------------------------
(* Observation of a step: the operation that ran, the records it handed to
   onNextSongQueued, the number of onStateChange calls it made, and whether
   it ended by throwing (a rejected promise). *)

Obs(op, queued, changes, raised) ==
    [op |-> op, queued |-> queued, changes |-> changes, raised |-> raised]

\* An awaited getConnections(musician) of queueNextSongByMusician
Lookup(m) == [k |-> "lookup", arg |-> m, requeue |-> FALSE]

\* An awaited catalog.getSong(slug) of playSong; requeue: called from playNext
GetSong(slug, requeue) == [k |-> "getSong", arg |-> slug, requeue |-> requeue]

\* playNext between the return of playSong and its re-queue, index.js:106-109
AfterPlaySong == [k |-> "afterPlaySong", arg |-> null, requeue |-> TRUE]

NoPending == EmptyBag

Started(task) == pending (+) SetToBag({task})
Finished(task) == pending (-) SetToBag({task})

----------------------------------------------------------------------------
(* RabbitholeState *)

\* constructor, state.js:12-32: the fields of a new instance
constructed(item) ==
    LET loaded == loadFromStorage(item) IN
    [followingMusician |-> null,
     playedSongs |-> loaded.playedSongs,
     currentSongSlug |-> null,
     followMode |-> loaded.followMode,
     history |-> <<>>,
     nextSong |-> NoSong,
     queue |-> <<>>]

Init ==
    /\ storageItem \in InitialStorage
    /\ followingMusician = constructed(storageItem).followingMusician
    /\ playedSongs = constructed(storageItem).playedSongs
    /\ currentSongSlug = constructed(storageItem).currentSongSlug
    /\ followMode = constructed(storageItem).followMode
    /\ history = constructed(storageItem).history
    /\ nextSong = constructed(storageItem).nextSong
    /\ queue = constructed(storageItem).queue
    /\ pending = NoPending
    /\ currentTrack = null
    /\ last = Obs("constructor", <<>>, 0, FALSE)
    /\ trackData = [title |-> null]
    /\ _processedTimeline = [cached |-> FALSE]
    /\ _cachedSongParts = [cached |-> FALSE]
    /\ allMomentTimes = <<>>
    /\ upcomingMomentTimes = <<>>
    /\ currentSolo = null
    /\ recentSoloists = <<>>
    /\ musicianWeights = <<>>
    /\ timeUpdateInterval = FALSE
    /\ triggered = <<>>
    /\ shown = [op |-> "none", time |-> 0, arrangement |-> [undefined |-> TRUE],
                partIndex |-> -1, moments |-> <<>>, status |-> <<"undefined">>]

\* A first visit: nothing is stored yet.
InitFresh == Init /\ storageItem = Absent

\* A new page load: a new RabbitholeState (and player) over the same storage;
\* the promises of the old page are gone.
Construct ==
    /\ UNCHANGED chartVars
    /\ followingMusician' = constructed(storageItem).followingMusician
    /\ playedSongs' = constructed(storageItem).playedSongs
    /\ currentSongSlug' = constructed(storageItem).currentSongSlug
    /\ followMode' = constructed(storageItem).followMode
    /\ history' = constructed(storageItem).history
    /\ nextSong' = constructed(storageItem).nextSong
    /\ queue' = constructed(storageItem).queue
    /\ pending' = NoPending
    /\ currentTrack' = null
    /\ last' = Obs("constructor", <<>>, 0, FALSE)
    /\ UNCHANGED storageItem

\* clear, state.js:74-84
clear ==
    /\ UNCHANGED chartVars
    /\ storageItem' = Absent
    /\ playedSongs' = {}
    /\ followingMusician' = null
    /\ currentSongSlug' = null
    /\ history' = <<>>
    /\ nextSong' = NoSong
    /\ queue' = <<>>
    /\ last' = Obs("clear", <<>>, 1, FALSE)
    /\ UNCHANGED <<followMode, pending, currentTrack>>

\* isPlayable, state.js:224-227
isPlayable(songSlug) ==
    InCatalog(songSlug) /\ songSlug \notin playedSongs /\ songSlug # currentSongSlug

\* A setFollowingMusician that starts no selection when the musician is
\* already the one followed.
setFollowingMusicianUnlessFollowed(musicianName) ==
    /\ BagCardinality(pending) < MaxPending
    /\ followingMusician' = musicianName
    /\ storageItem' = saveToStorage(musicianName, playedSongs, currentSongSlug, followMode)
    /\ pending' = IF musicianName = followingMusician
                  THEN pending
                  ELSE Started(Lookup(musicianName))
    /\ UNCHANGED <<playedSongs, currentSongSlug, followMode, history, nextSong>>

\* setFollowingMusician, state.js:89-99: its effect; the queueNextSongByMusician
\* it starts runs up to the await of getConnections.
setFollowingMusicianEffect(musicianName) ==
    /\ BagCardinality(pending) < MaxPending
    /\ followingMusician' = musicianName
    /\ storageItem' = saveToStorage(musicianName, playedSongs, currentSongSlug, followMode)
    /\ pending' = Started(Lookup(musicianName))
    /\ UNCHANGED <<playedSongs, currentSongSlug, followMode, history, nextSong>>

setFollowingMusician(musicianName) ==
    /\ UNCHANGED chartVars
    /\ setFollowingMusicianEffect(musicianName)
    /\ last' = Obs("setFollowingMusician", <<>>, 1, FALSE)
    /\ UNCHANGED <<queue, currentTrack>>

\* A direct call of queueNextSongByMusician, up to its await, state.js:104-105
queueNextSongByMusician(musicianName) ==
    /\ UNCHANGED chartVars
    /\ BagCardinality(pending) < MaxPending
    /\ pending' = Started(Lookup(musicianName))
    /\ last' = Obs("queueNextSongByMusician:await", <<>>, 0, FALSE)
    /\ UNCHANGED <<stateVars, storageItem, currentTrack>>

\* The filter without its test against the current song.
playableIgnoringCurrent(title) ==
    LET songSlug == normalizeSlug(title) IN
    /\ InCatalog(songSlug)
    /\ songSlug \notin playedSongs

\* The filter of state.js:111-117
playable(title) ==
    LET songSlug == normalizeSlug(title) IN
    /\ InCatalog(songSlug)
    /\ songSlug \notin playedSongs
    /\ songSlug # currentSongSlug

playableSongs(connectionsData) == SelectSeq(connectionsData, playable)

\* The sentinel naming the followed musician instead of the requested one.
sentinelOfFollowed(musicianName) ==
    [songSlug |-> null, songTitle |-> NoSongsQueued, viaMusician |-> followingMusician]

\* state.js:121
sentinel(musicianName) ==
    [songSlug |-> null, songTitle |-> NoSongsQueued, viaMusician |-> musicianName]

\* state.js:127-137: the recommendation for the randomIndex-th playable song
selection(playableList, randomIndex, musicianName) ==
    LET nextSlug == normalizeSlug(playableList[randomIndex]) IN
    [songSlug |-> nextSlug,
     songTitle |-> IF InCatalog(nextSlug) THEN Catalog[nextSlug].title
                   ELSE playableList[randomIndex],
     viaMusician |-> musicianName]

\* The queue with the selected slug appended to what it held.
queueAfterAppending(nextSlug) == Append(queue, nextSlug)

\* state.js:135-136: the queue is cleared and holds the selected slug
queueAfterSelection(nextSlug) == <<nextSlug>>

\* state.js:106: no data, the method returns
noData(response) == response.t = "null"

\* queueNextSongByMusician after its await, state.js:106-141: the lookup of
\* task is answered with response.
connectionsArrive(task, response) ==
    /\ UNCHANGED chartVars
    /\ task \in BagToSet(pending)
    /\ task.k = "lookup"
    /\ pending' = Finished(task)
    /\ UNCHANGED <<followingMusician, playedSongs, currentSongSlug, followMode, history,
                   storageItem, currentTrack>>
    /\ IF response.t = "throws"
       THEN /\ last' = Obs("queueNextSongByMusician", <<>>, 0, TRUE)
            /\ UNCHANGED <<nextSong, queue>>
       ELSE IF noData(response)
       THEN /\ last' = Obs("queueNextSongByMusician", <<>>, 0, FALSE)
            /\ UNCHANGED <<nextSong, queue>>
       ELSE LET list == playableSongs(response.items) IN
            IF Len(list) = 0
            THEN /\ nextSong' = sentinel(task.arg)
                 /\ last' = Obs("queueNextSongByMusician", <<sentinel(task.arg)>>, 0, FALSE)
                 /\ UNCHANGED queue
            ELSE \E randomIndex \in 1..Len(list) :
                 /\ queue' = queueAfterSelection(selection(list, randomIndex, task.arg).songSlug)
                 /\ nextSong' = selection(list, randomIndex, task.arg)
                 /\ last' = Obs("queueNextSongByMusician",
                                <<selection(list, randomIndex, task.arg)>>, 0, FALSE)

\* The history entry annotated with the followed musician instead of the one
\* of the recommendation.
historyNamingFollowed ==
    IF Truthy(currentSongSlug) /\ nextSong # NoSong /\ InCatalog(currentSongSlug)
    THEN Append(history, [songSlug |-> currentSongSlug,
                          songTitle |-> Catalog[currentSongSlug].title,
                          viaMusician |-> followingMusician])
    ELSE history

\* state.js:155-165: the history after setCurrentSong
historyAfter ==
    IF Truthy(currentSongSlug) /\ nextSong # NoSong /\ InCatalog(currentSongSlug)
    THEN Append(history, [songSlug |-> currentSongSlug,
                          songTitle |-> Catalog[currentSongSlug].title,
                          viaMusician |-> nextSong.viaMusician])
    ELSE history

\* playedSongs replaced by the previous song instead of extended by it.
playedOnlyPrevious ==
    IF Truthy(currentSongSlug) THEN {currentSongSlug} ELSE playedSongs

\* state.js:168-170: playedSongs after setCurrentSong
playedAfter ==
    IF Truthy(currentSongSlug) THEN playedSongs \cup {currentSongSlug} ELSE playedSongs

\* setCurrentSong, state.js:153-175: its effect on the state and the storage
setCurrentSongEffect(songSlug) ==
    /\ Len(historyAfter) <= MaxHistory
    /\ history' = historyAfter
    /\ playedSongs' = playedAfter
    /\ currentSongSlug' = songSlug
    /\ storageItem' = saveToStorage(followingMusician, playedAfter, songSlug, followMode)
    /\ UNCHANGED <<followingMusician, followMode, nextSong, queue>>

setCurrentSong(songSlug) ==
    /\ UNCHANGED chartVars
    /\ setCurrentSongEffect(songSlug)
    /\ last' = Obs("setCurrentSong", <<>>, 1, FALSE)
    /\ UNCHANGED <<pending, currentTrack>>

\* popNextSong, state.js:180-185: what it returns and the queue it leaves
popped == IF Len(queue) = 0 THEN null ELSE Head(queue)
queueAfterPop == IF Len(queue) = 0 THEN queue ELSE Tail(queue)

popNextSong ==
    /\ UNCHANGED chartVars
    /\ queue' = queueAfterPop
    /\ last' = Obs("popNextSong", <<>>, 0, FALSE)
    /\ UNCHANGED <<followingMusician, playedSongs, currentSongSlug, followMode, history,
                   nextSong, storageItem, pending, currentTrack>>

\* addToQueue, state.js:190-193
addToQueue(songSlug) ==
    /\ UNCHANGED chartVars
    /\ Len(queue) < MaxQueue
    /\ queue' = Append(queue, songSlug)
    /\ last' = Obs("addToQueue", <<>>, 0, FALSE)
    /\ UNCHANGED <<followingMusician, playedSongs, currentSongSlug, followMode, history,
                   nextSong, storageItem, pending, currentTrack>>

\* getPreviousSong, state.js:198-203 (also what goBack returns)
getPreviousSong == IF Len(history) = 0 THEN NoSong ELSE history[Len(history)]

\* goBack without the removal from playedSongs.
goBackKeepingPlayed ==
    IF Len(history) = 0
    THEN UNCHANGED <<history, playedSongs>>
    ELSE /\ history' = SubSeq(history, 1, Len(history) - 1)
         /\ UNCHANGED playedSongs

\* goBack, state.js:208-219: its effect on the state
goBackEffect ==
    IF Len(history) = 0
    THEN UNCHANGED <<history, playedSongs>>
    ELSE /\ history' = SubSeq(history, 1, Len(history) - 1)
         /\ playedSongs' = playedSongs \ {history[Len(history)].songSlug}

goBack ==
    /\ UNCHANGED chartVars
    /\ goBackEffect
    /\ last' = Obs("goBack", <<>>, 0, FALSE)
    /\ UNCHANGED <<followingMusician, currentSongSlug, followMode, nextSong, queue,
                   storageItem, pending, currentTrack>>

----------------------------------------------------------------------------
(* RabbitholePlayer, with the catalog loaded (init done) *)

\* StaticCatalog.getSong: the track of slug, or null
getSong(slug) == IF InCatalog(slug) THEN slug ELSE null

\* playSong up to its await, index.js:56-57
playSong(slug) ==
    /\ UNCHANGED chartVars
    /\ BagCardinality(pending) < MaxPending
    /\ pending' = Started(GetSong(slug, FALSE))
    /\ last' = Obs("playSong:await", <<>>, 0, FALSE)
    /\ UNCHANGED <<stateVars, storageItem, currentTrack>>

\* playSong after its await, index.js:58-78; a playSong that playNext awaits
\* leaves playNext waiting for its return.
songArrives(task) ==
    /\ UNCHANGED chartVars
    /\ task \in BagToSet(pending)
    /\ task.k = "getSong"
    /\ pending' = IF task.requeue THEN Finished(task) (+) SetToBag({AfterPlaySong})
                  ELSE Finished(task)
    /\ IF getSong(task.arg) = null
       THEN /\ last' = Obs("playSong:notFound", <<>>, 0, FALSE)
            /\ UNCHANGED <<stateVars, storageItem, currentTrack>>
       ELSE /\ currentTrack' = getSong(task.arg)
            /\ setCurrentSongEffect(task.arg)
            /\ last' = Obs("playSong", <<>>, 1, FALSE)

\* getBandmates, index.js:127-134
getBandmates ==
    IF currentTrack = null THEN {}
    ELSE Catalog[currentTrack].ensemble \ {followingMusician}

\* playNext up to its first await, index.js:84-106
playNext ==
    /\ UNCHANGED chartVars
    /\ IF Truthy(popped)
       THEN /\ BagCardinality(pending) < MaxPending
            /\ queue' = queueAfterPop
            /\ pending' = Started(GetSong(popped, TRUE))
            /\ last' = Obs("playNext:await", <<>>, 0, FALSE)
            /\ UNCHANGED <<followingMusician, playedSongs, currentSongSlug, followMode,
                           history, nextSong, storageItem, currentTrack>>
       ELSE IF getBandmates # {}
       THEN \E randomBandmate \in getBandmates :
            \* the second popNextSong runs before the lookup can answer
            /\ setFollowingMusicianEffect(randomBandmate)
            /\ queue' = queueAfterPop
            /\ last' = Obs("playNext:end", <<>>, 1, FALSE)
            /\ UNCHANGED currentTrack
       ELSE /\ queue' = queueAfterPop
            /\ last' = Obs("playNext:end", <<>>, 0, FALSE)
            /\ UNCHANGED <<followingMusician, playedSongs, currentSongSlug, followMode,
                           history, nextSong, storageItem, pending, currentTrack>>

\* playNext after playSong returned, index.js:108-111
requeue(task) ==
    /\ UNCHANGED chartVars
    /\ task \in BagToSet(pending)
    /\ task.k = "afterPlaySong"
    /\ pending' = IF Truthy(followingMusician)
                  THEN Finished(task) (+) SetToBag({Lookup(followingMusician)})
                  ELSE Finished(task)
    /\ last' = Obs("playNext:requeue", <<>>, 0, FALSE)
    /\ UNCHANGED <<stateVars, storageItem, currentTrack>>

\* playPrevious up to its await, index.js:117-122
playPrevious ==
    /\ UNCHANGED chartVars
    /\ goBackEffect
    /\ IF getPreviousSong # NoSong
       THEN /\ BagCardinality(pending) < MaxPending
            /\ pending' = Started(GetSong(getPreviousSong.songSlug, FALSE))
       ELSE UNCHANGED pending
    /\ last' = Obs("playPrevious", <<>>, 0, FALSE)
    /\ UNCHANGED <<followingMusician, currentSongSlug, followMode, nextSong, queue,
                   storageItem, currentTrack>>

\* followMusician, index.js:139-142
followMusician(musicianName) ==
    /\ UNCHANGED chartVars
    /\ setFollowingMusicianEffect(musicianName)
    /\ last' = Obs("followMusician", <<>>, 1, FALSE)
    /\ UNCHANGED <<queue, currentTrack>>

----------------------------------------------------------------------------
(* WebampChartifacts (src/src/player/webamp-chartifacts.js): the timeline
   resolver, the song parts, the dynamic weights and the one-shot moments.

   A JavaScript object with computed keys (a timeline, the data of a section,
   the processed timeline) is the sequence of its entries [k, v], the keys
   being strings; an arrangement, whose fields the code names one by one, is
   a record with exactly the fields it has.  Numbers that are times are
   counted in half seconds, so that 50.5 s is a number of the model, and
   weights are counted in tenths, so that the weight of a pickup (between 5
   and 2 in steps of 0.3) is one too.  RabbitholePlayer.playSong hands each
   track it loads to this object (index.js:67-75); here the object is given
   the track records under study directly. *)

undefined == <<"undefined">>

\* n seconds, as a number of the model
Sec(n) == 2 * n

\* the weight n, as a number of the model
Weight(n) == 10 * n

\* What a query for an arrangement returns when there is none (undefined).
NoArrangement == [undefined |-> TRUE]

Entry(k, v) == [k |-> k, v |-> v]

\* key in obj
HasKey(obj, key) == \E i \in 1..Len(obj) : obj[i].k = key

\* obj[key], for a key the object has
At(obj, key) == obj[CHOOSE i \in 1..Len(obj) : obj[i].k = key].v

\* obj[key] = value
Put(obj, key, value) ==
    IF HasKey(obj, key)
    THEN [i \in 1..Len(obj) |-> IF obj[i].k = key THEN Entry(key, value) ELSE obj[i]]
    ELSE Append(obj, Entry(key, value))

\* arrangement.field, undefined when the arrangement does not have it
Field(arrangement, field) ==
    IF field \in DOMAIN arrangement THEN arrangement[field] ELSE undefined

\* arrangement.flag is true
Flag(arrangement, flag) == flag \in DOMAIN arrangement /\ arrangement[flag] = TRUE

\* {...o1, ...o2}
Spread(o1, o2) ==
    [f \in DOMAIN o1 \cup DOMAIN o2 |-> IF f \in DOMAIN o2 THEN o2[f] ELSE o1[f]]

\* A string value is truthy: it is there and not empty.
TruthyString(v) == v # undefined /\ v # null /\ v # <<>>

\* Decimal digits
DigitChars == <<"0", "1", "2", "3", "4", "5", "6", "7", "8", "9">>

IsDigit(ch) == \E d \in 1..Len(DigitChars) : DigitChars[d] = ch

DigitValue(ch) == (CHOOSE d \in 1..Len(DigitChars) : DigitChars[d] = ch) - 1

RECURSIVE Digits(_)
Digits(n) ==
    IF n < 10 THEN <<DigitChars[n + 1]>>
    ELSE Digits(n \div 10) \o <<DigitChars[(n % 10) + 1]>>

RECURSIVE LeadingDigits(_)
LeadingDigits(s) ==
    IF s # <<>> /\ IsDigit(Head(s))
    THEN <<Head(s)>> \o LeadingDigits(Tail(s))
    ELSE <<>>

RECURSIVE DecimalValue(_)
DecimalValue(digits) ==
    IF digits = <<>> THEN 0
    ELSE 10 * DecimalValue(SubSeq(digits, 1, Len(digits) - 1))
         + DigitValue(digits[Len(digits)])

AfterLeadingDigits(s) == SubSeq(s, Len(LeadingDigits(s)) + 1, Len(s))

\* !isNaN(parseFloat(s)): the string starts with a number
ParsesAsFloat(s) == LeadingDigits(s) # <<>>

\* The number NaN.  The times of the model are never negative, so that a
\* negative number is free to stand for it; the operations on numbers that
\* NaN can reach (the sum, Math.max, the key it is stored under) treat it as
\* JavaScript does.
NaN == 0 - 1

isNaN(n) == n = NaN

\* x + y
Plus(x, y) == IF isNaN(x) \/ isNaN(y) THEN NaN ELSE x + y

\* parseFloat(s): NaN for a string that does not start with a number;
\* otherwise the digits, and a half when ".5" follows them
parseFloat(s) ==
    LET rest == AfterLeadingDigits(s) IN
    IF ~ParsesAsFloat(s) THEN NaN
    ELSE Sec(DecimalValue(LeadingDigits(s)))
         + (IF Len(rest) >= 2 /\ rest[1] = "." /\ rest[2] = "5" THEN 1 ELSE 0)

\* !isNaN(Number(s)): the whole string is a number
IsNumber(s) ==
    /\ LeadingDigits(s) # <<>>
    /\ AfterLeadingDigits(s) \in {<<>>, <<".", "0">>, <<".", "5">>}

\* Number(s)
Number(s) == IF IsNumber(s) THEN parseFloat(s) ELSE NaN

\* String(n), the key under which obj[n] is stored
String(n) ==
    IF isNaN(n) THEN <<"N", "a", "N">>
    ELSE Digits(n \div 2) \o (IF n % 2 = 1 THEN <<".", "5">> ELSE <<>>)

\* The name of a property as a field of a record
RECURSIVE FieldName(_)
FieldName(key) == IF key = <<>> THEN "" ELSE Head(key) \o FieldName(Tail(key))

\* Math.max(...numbers), for at least one number: NaN when one of them is
RECURSIVE Max(_)
Max(numbers) ==
    IF Len(numbers) = 1 THEN numbers[1]
    ELSE LET m == Max(Tail(numbers)) IN
         IF isNaN(numbers[1]) \/ isNaN(m) THEN NaN
         ELSE IF numbers[1] >= m THEN numbers[1] ELSE m

\* entries.sort((a, b) => a.time - b.time), a stable sort
RECURSIVE SortByTime(_)
SortByTime(entries) ==
    IF entries = <<>> THEN <<>>
    ELSE LET first == CHOOSE i \in 1..Len(entries) :
                          /\ \A j \in 1..Len(entries) : entries[i].time <= entries[j].time
                          /\ \A j \in 1..(i - 1) : entries[j].time # entries[i].time
         IN <<entries[first]>>
            \o SortByTime([j \in 1..(Len(entries) - 1) |->
                             IF j < first THEN entries[j] ELSE entries[j + 1]])

Reverse(s) == [i \in 1..Len(s) |-> s[Len(s) + 1 - i]]

\* Object.entries(timeline).map(([timeStr, arrangement]) =>
\*     ({ time: Number(timeStr), arrangement }))
TimedEntries(timeline) ==
    [i \in 1..Len(timeline) |->
        [time |-> Number(timeline[i].k), arrangement |-> timeline[i].v]]

\* Names of the properties the code reads
section == <<"s", "e", "c", "t", "i", "o", "n">>
length == <<"l", "e", "n", "g", "t", "h">>
band == <<"b", "a", "n", "d">>
In == <<"i", "n">>
Out == <<"o", "u", "t">>
BandIn == <<"b", "a", "n", "d", "-", "i", "n">>
Lead == <<"l", "e", "a", "d">>
Pickup == <<"p", "i", "c", "k", "u", "p">>
Cooldown == <<"c", "o", "o", "l", "d", "o", "w", "n">>
Harmony == <<"h", "a", "r", "m", "o", "n", "y">>
Rhythm == <<"r", "h", "y", "t", "h", "m">>
PickUp == <<"p", "i", "c", "k", " ", "u", "p">>

\* key.startsWith('section')
startsWithSection(key) ==
    Len(key) >= Len(section) /\ SubSeq(key, 1, Len(section)) = section

\* trackData.standardSectionLength is truthy
hasStandardSectionLength(track) ==
    "standardSectionLength" \in DOMAIN track /\ track.standardSectionLength # 0

\* processTimelineKeys, lines 959-967: the explicit entries, copied
RECURSIVE copyExplicit(_, _)
copyExplicit(entries, timeline) ==
    IF entries = <<>> THEN timeline
    ELSE LET key == Head(entries).k
             value == Head(entries).v
         IN copyExplicit(Tail(entries),
                IF ~startsWithSection(key)
                THEN Put(timeline, String(parseFloat(key)), value)
                ELSE timeline)

explicitTimes(timeline) ==
    LET explicit == SelectSeq(timeline, LAMBDA e : ~startsWithSection(e.k)) IN
    [i \in 1..Len(explicit) |-> parseFloat(explicit[i].k)]

\* lines 969-970
maxExplicitTime(timeline) ==
    IF Len(explicitTimes(timeline)) > 0 THEN Max(explicitTimes(timeline)) ELSE 0

\* lines 979-981
sectionLength(sectionData, track) ==
    IF HasKey(sectionData, length)
    THEN At(sectionData, length)
    ELSE track.standardSectionLength

\* A section starting where the one before it started: the accumulated time
\* read before the section's length is added.
startBeforeLength(accumulatedTime, sectionData, track) == accumulatedTime

\* lines 984-985
sectionStartTime(accumulatedTime, sectionData, track) ==
    Plus(accumulatedTime, sectionLength(sectionData, track))

\* lines 988-998: the fields of the section that are not sub-moments
baseSectionData(sectionData) ==
    LET base == SelectSeq(sectionData, LAMBDA e : ~ParsesAsFloat(e.k)) IN
    [f \in {FieldName(base[i].k) : i \in 1..Len(base)} |->
        base[CHOOSE i \in 1..Len(base) : FieldName(base[i].k) = f].v]

subMoments(sectionData) == SelectSeq(sectionData, LAMBDA e : ParsesAsFloat(e.k))

\* line 1006
subMoment(base, momentData) ==
    Spread(Spread(base, momentData), [_isSubMoment |-> TRUE])

\* lines 1002-1007
RECURSIVE addSubMoments(_, _, _)
addSubMoments(moments, base, timeline) ==
    IF moments = <<>> THEN timeline
    ELSE addSubMoments(Tail(moments), base,
             Put(timeline, String(parseFloat(Head(moments).k)),
                 subMoment(base, Head(moments).v)))

\* line 1011
sectionStart(base) == Spread(base, [_isSectionStart |-> TRUE])

\* line 974: for (let i = 1; i <= 20; i++)
MaxSections == 20

\* lines 974-1013, from section i on: the processed timeline, and next to it
\* the start times the loop gave the sections
RECURSIVE processSections(_, _, _, _, _)
processSections(track, i, accumulatedTime, timeline, starts) ==
    IF i > MaxSections THEN [timeline |-> timeline, starts |-> starts]
    ELSE LET sectionKey == section \o Digits(i) IN
         IF ~HasKey(track.timeline, sectionKey)
         THEN processSections(track, i + 1, accumulatedTime, timeline, starts)
         ELSE LET sectionData == At(track.timeline, sectionKey)
                  start == sectionStartTime(accumulatedTime, sectionData, track)
                  base == baseSectionData(sectionData)
              IN processSections(track, i + 1,
                     Plus(accumulatedTime, sectionLength(sectionData, track)),
                     Put(addSubMoments(subMoments(sectionData), base, timeline),
                         String(start), sectionStart(base)),
                     Append(starts, start))

\* lines 957-1013
resolved(track) ==
    processSections(track, 1, maxExplicitTime(track.timeline),
                    copyExplicit(track.timeline, <<>>), <<>>)

\* processTimelineKeys, lines 951-1016, for a track without a cached result
processed(track) ==
    IF ~hasStandardSectionLength(track)
    THEN track.timeline
    ELSE resolved(track).timeline

\* A cache field: null, or the value kept
NotCached == [cached |-> FALSE]
Cached(value) == [cached |-> TRUE, value |-> value]

\* A first call that answers with the raw timeline while it caches the
\* processed one.
rawUntilCached(cache, track) ==
    IF cache.cached THEN cache.value ELSE track.timeline

\* processTimelineKeys, lines 946-1017: what a call returns (and leaves in
\* _processedTimeline)
processTimelineKeys(cache, track) ==
    IF cache.cached THEN cache.value ELSE processed(track)

\* A scan from the earliest start time
firstStartTime(startTimes, currentTime) ==
    LET reached == SelectSeq(Reverse(startTimes), LAMBDA time : time <= currentTime) IN
    IF reached = <<>> THEN undefined ELSE String(reached[1])

\* lines 941-942: the key of the latest start time that has been reached
currentStartTime(startTimes, currentTime) ==
    LET reached == SelectSeq(startTimes, LAMBDA time : time <= currentTime) IN
    IF reached = <<>> THEN undefined ELSE String(reached[1])

\* getCurrentArrangement, lines 938-944, over the processed timeline
arrangementAt(processedTimeline, currentTime) ==
    LET times == SortByTime(TimedEntries(processedTimeline))
        startTimes == Reverse([i \in 1..Len(times) |-> times[i].time])
        key == currentStartTime(startTimes, currentTime)
    IN IF HasKey(processedTimeline, key)
       THEN At(processedTimeline, key)
       ELSE NoArrangement

\* lines 660 and 698: the entry contributes a part
isPart(arrangement) ==
    /\ TruthyString(Field(arrangement, "part"))
    /\ \/ Flag(arrangement, "_isSectionStart")
       \/ ~Flag(arrangement, "_isSubMoment")

\* A filter that lets the sub-moments through.
isPartOrSubMoment(entry) == TruthyString(Field(entry.arrangement, "part"))

\* line 696-699
partEntry(entry) == isPart(entry.arrangement)

\* extractSongParts, lines 649-666, over the processed timeline
songParts(processedTimeline) ==
    LET timelineEntries == SortByTime(TimedEntries(processedTimeline))
        parts == SelectSeq(timelineEntries, LAMBDA e : isPart(e.arrangement))
    IN [i \in 1..Len(parts) |-> parts[i].arrangement.part]

\* getCurrentPartIndex, lines 688-711, over the processed timeline
partIndexAt(processedTimeline, currentTime) ==
    LET timelineEntries ==
            SortByTime(SelectSeq(TimedEntries(processedTimeline), partEntry))
        occurred == {i \in 1..Len(timelineEntries) :
                        timelineEntries[i].time <= currentTime}
    IN IF occurred = {} THEN -1
       ELSE (CHOOSE i \in occurred : \A j \in occurred : j <= i) - 1

\* lines 622-629: the musicians of the entry change
musiciansChanging(musicians) ==
    \/ (band \in DOMAIN musicians /\ musicians[band] \in {In, Out})
    \/ \E m \in DOMAIN musicians : musicians[m] \in {In, Out}

\* lines 614-637: the times one timeline entry pushes
momentTimesOf(timeStr, arrangement) ==
    (IF /\ IsNumber(timeStr) /\ Number(timeStr) > 0
        /\ "musicians" \in DOMAIN arrangement
        /\ musiciansChanging(arrangement.musicians)
     THEN <<Number(timeStr)>> ELSE <<>>)
    \o
    (IF /\ IsNumber(timeStr) /\ Number(timeStr) > 0
        /\ Field(arrangement, "detail") = BandIn
     THEN <<Number(timeStr)>> ELSE <<>>)

RECURSIVE pushMomentTimes(_)
pushMomentTimes(entries) ==
    IF entries = <<>> THEN <<>>
    ELSE momentTimesOf(Head(entries).k, Head(entries).v)
         \o pushMomentTimes(Tail(entries))

\* momentTimes.sort((a, b) => a - b)
RECURSIVE SortNumbers(_)
SortNumbers(numbers) ==
    IF numbers = <<>> THEN <<>>
    ELSE LET first == CHOOSE i \in 1..Len(numbers) :
                          \A j \in 1..Len(numbers) : numbers[i] <= numbers[j]
         IN <<numbers[first]>>
            \o SortNumbers([j \in 1..(Len(numbers) - 1) |->
                              IF j < first THEN numbers[j] ELSE numbers[j + 1]])

\* extractMomentTimes, lines 611-639
extractMomentTimes(track) == SortNumbers(pushMomentTimes(track.timeline))

\* initializeMusicianWeights, lines 45-53: 100, 110, 120, ... in the order of
\* the ensemble's keys
initializeMusicianWeights(track) ==
    [name \in {track.ensemble[i] : i \in 1..Len(track.ensemble)} |->
        Weight(100) + Weight(10)
            * ((CHOOSE i \in 1..Len(track.ensemble) : track.ensemble[i] = name) - 1)]

\* recentSoloists.indexOf(name), from 0; -1 when absent
indexOf(list, name) ==
    IF \E i \in 1..Len(list) : list[i] = name
    THEN (CHOOSE i \in 1..Len(list) :
              list[i] = name /\ \A j \in 1..(i - 1) : list[j] # name) - 1
    ELSE -1

\* A list that keeps every soloist it was given.
addRecentSoloistKeepingAll(list, musicianName) ==
    <<musicianName>> \o SelectSeq(list, LAMBDA name : name # musicianName)

\* addRecentSoloist, lines 870-877
addRecentSoloist(list, musicianName) ==
    LET moved == <<musicianName>> \o SelectSeq(list, LAMBDA name : name # musicianName) IN
    SubSeq(moved, 1, IF Len(moved) < 3 THEN Len(moved) ELSE 3)

\* calculatePickupWeight, lines 756-778
calculatePickupWeight(processedTimeline, musicianName, currentTime) ==
    LET timelineEntries == Reverse(SortByTime(TimedEntries(processedTimeline)))
        starts == SelectSeq(timelineEntries, LAMBDA entry :
                      /\ entry.time <= currentTime
                      /\ Field(entry.arrangement, "soloist") = musicianName
                      /\ Field(entry.arrangement, "type") = PickUp)
    IN IF starts = <<>> THEN Weight(5)
       ELSE LET pickupDuration == currentTime - starts[1].time
                \* 3 * Math.min(pickupDuration / 5, 1), in tenths
                progress == IF pickupDuration < Sec(5) THEN 3 * pickupDuration ELSE 30
            IN Weight(5) - progress

\* lines 719-734: the weight of a scene of the feature map
sceneWeight(processedTimeline, musicianScene, musicianName, currentTime) ==
    CASE musicianScene = Lead -> Weight(1)
      [] musicianScene = Pickup ->
             calculatePickupWeight(processedTimeline, musicianName, currentTime)
      [] musicianScene = Cooldown -> Weight(5)
      [] musicianScene = Harmony -> Weight(7)
      [] musicianScene = Rhythm -> Weight(8)
      [] OTHER -> Weight(6)

\* calculateDynamicWeight, lines 713-754
calculateDynamicWeight(processedTimeline, weights, recent, musicianName, currentTime, arrangement) ==
    LET baseWeight == weights[musicianName]
        features == IF arrangement # NoArrangement /\ "feature" \in DOMAIN arrangement
                    THEN arrangement.feature ELSE <<>>
        musicianScene == IF musicianName \in DOMAIN features
                         THEN features[musicianName] ELSE undefined
        soloMusician == IF arrangement # NoArrangement
                        THEN Field(arrangement, "solo") ELSE null
        pickupMusician == IF arrangement # NoArrangement
                          THEN Field(arrangement, "pickup") ELSE null
    IN IF TruthyString(musicianScene)
       THEN sceneWeight(processedTimeline, musicianScene, musicianName, currentTime)
       ELSE IF soloMusician = musicianName THEN Weight(1)
       ELSE IF pickupMusician = musicianName
            THEN calculatePickupWeight(processedTimeline, musicianName, currentTime)
       ELSE IF indexOf(recent, musicianName) # -1
            THEN Weight(10) + Weight(indexOf(recent, musicianName))
       ELSE baseWeight + Len(recent) * Weight(5)

\* line 1052: the musician the arrangement names as soloing
soloOf(arrangement) ==
    IF arrangement # NoArrangement
    THEN (IF TruthyString(Field(arrangement, "solo"))
          THEN arrangement.solo
          ELSE Field(arrangement, "soloist"))
    ELSE null

\* checkForMoments, lines 1745-1758: the three buckets
momentsNotYetReached(upcoming, currentTime) ==
    SelectSeq(upcoming, LAMBDA momentTime : currentTime - momentTime < 0)

momentsToTrigger(upcoming, currentTime) ==
    SelectSeq(upcoming, LAMBDA momentTime :
        currentTime - momentTime >= 0 /\ currentTime - momentTime <= Sec(1))

momentsMissedAndNeedCulling(upcoming, currentTime) ==
    SelectSeq(upcoming, LAMBDA momentTime : currentTime - momentTime > Sec(1))

\* triggerMoment, lines 1769-1772: the moment has an entry to flash for
flashes(track, momentTime) == HasKey(track.timeline, String(momentTime))

\* getMusicianStatus, lines 1804-1831, over the processed timeline
RECURSIVE statusAfter(_, _, _, _)
statusAfter(timelineEntries, musicianName, currentTime, status) ==
    IF timelineEntries = <<>> \/ Head(timelineEntries).time > currentTime
    THEN status
    ELSE LET musicians == Head(timelineEntries).arrangement.musicians IN
         statusAfter(Tail(timelineEntries), musicianName, currentTime,
             IF band \in DOMAIN musicians /\ musicians[band] = In THEN In
             ELSE IF band \in DOMAIN musicians /\ musicians[band] = Out THEN Out
             ELSE IF musicianName \in DOMAIN musicians
                     /\ TruthyString(musicians[musicianName])
                  THEN musicians[musicianName]
             ELSE status)

musicianStatus(processedTimeline, musicianName, currentTime) ==
    statusAfter(
        SortByTime(SelectSeq(TimedEntries(processedTimeline),
                             LAMBDA e : "musicians" \in DOMAIN e.arrangement)),
        musicianName, currentTime, Out)

\* The tracks under study (TrackRecord: title, ensemble, timeline and, for a
\* track with sections, standardSectionLength)
part == <<"p", "a", "r", "t">>
solo == <<"s", "o", "l", "o">>
Intro == <<"i", "n", "t", "r", "o">>
Verse == <<"v", "e", "r", "s", "e">>
Chorus == <<"c", "h", "o", "r", "u", "s">>
Break == <<"b", "r", "e", "a", "k">>

\* An explicit entry at 10 s and two sections of the standard length, the
\* first with a sub-moment at 45 s.
SectionsTrack ==
    [title |-> <<"S">>,
     ensemble |-> <<P, Q>>,
     standardSectionLength |-> Sec(30),
     timeline |-> <<
        Entry(<<"1", "0">>, [part |-> Intro, musicians |-> (band :> In)]),
        Entry(section \o <<"1">>, <<
            Entry(part, Verse),
            Entry(solo, P),
            Entry(<<"4", "5">>, [solo |-> Q]) >>),
        Entry(section \o <<"2">>, <<
            Entry(part, Chorus) >>) >>]

\* No explicit entry; a section whose sub-moment is at the time the section
\* starts, a missing section2, and a section with its own length and a
\* sub-moment that has a part.
LengthsTrack ==
    [title |-> <<"L">>,
     ensemble |-> <<P, Q>>,
     standardSectionLength |-> Sec(30),
     timeline |-> <<
        Entry(section \o <<"1">>, <<
            Entry(<<"3", "0">>, [solo |-> Q]),
            Entry(part, Verse),
            Entry(solo, P) >>),
        Entry(section \o <<"3">>, <<
            Entry(<<"4", "0">>, [part |-> Break, solo |-> P]),
            Entry(part, Chorus),
            Entry(length, Sec(20)) >>) >>]

\* No sections: a soloist from the start, musicians coming in and out, a
\* solo with a feature map and a pickup.
MomentsTrack ==
    [title |-> <<"M">>,
     ensemble |-> <<P, Q>>,
     timeline |-> <<
        Entry(<<"0">>, [part |-> Intro, soloist |-> Q, musicians |-> (band :> In)]),
        Entry(<<"5", "0">>, [part |-> Verse, solo |-> P,
                             musicians |-> (Q :> Out)]),
        Entry(<<"6", "0">>, [solo |-> P, pickup |-> Q,
                             feature |-> (P :> Rhythm)]) >>]

\* No sections: an entry in both the musicians system and the legacy detail
\* system, and a legacy entry.
LegacyTrack ==
    [title |-> <<"G">>,
     ensemble |-> <<Q, P>>,
     timeline |-> <<
        Entry(<<"5", "0">>, [musicians |-> (band :> In), detail |-> BandIn]),
        Entry(<<"6", "0">>, [part |-> Chorus, detail |-> BandIn]) >>]

Tracks == <<SectionsTrack, LengthsTrack, MomentsTrack, LegacyTrack>>

\* A track with sections whose timeline has one more key: an explicit entry
\* at 10 s, the entry under the key, section1 with a sub-moment at 45 s and
\* the length given (none, 0 or 20 s), and section2.
KeyedTrack(key, ownLength) ==
    [title |-> <<"K">> \o key \o <<"/">> \o Digits(Len(ownLength))
                  \o (IF ownLength = <<>> THEN <<>> ELSE Digits(ownLength[1].v)),
     ensemble |-> <<P, Q>>,
     standardSectionLength |-> Sec(30),
     timeline |-> <<
        Entry(<<"1", "0">>, [part |-> Intro, musicians |-> (band :> In)]),
        Entry(key, [part |-> Break, solo |-> P]),
        Entry(section \o <<"1">>,
            << Entry(part, Verse), Entry(<<"4", "5">>, [solo |-> Q]) >> \o ownLength),
        Entry(section \o <<"2">>, <<
            Entry(part, Chorus) >>) >>]

\* The keys: one that is not a number and not a section, and explicit times
\* after 10 s, one of them the time of the sub-moment of section1
Outro == <<"o", "u", "t", "r", "o">>
TrackKeys == << Outro, <<"2", "0">>, <<"4", "5">>, <<"7", "0">>, <<"1", "0", ".", "5">> >>
OwnLengths == << <<>>, <<Entry(length, 0)>>, <<Entry(length, Sec(20))>> >>

KeyedTracks ==
    [n \in 1..(Len(TrackKeys) * Len(OwnLengths)) |->
        KeyedTrack(TrackKeys[((n - 1) \div Len(OwnLengths)) + 1],
                   OwnLengths[((n - 1) % Len(OwnLengths)) + 1])]

\* A section numbered above 20.
ManySectionsTrack ==
    [title |-> <<"N">>,
     ensemble |-> <<P, Q>>,
     standardSectionLength |-> Sec(30),
     timeline |-> <<
        Entry(section \o <<"1">>, <<
            Entry(part, Verse) >>),
        Entry(section \o <<"2", "1">>, <<
            Entry(part, Chorus),
            Entry(solo, Q) >>) >>]

\* Musicians coming in and out at an explicit time, at the start of a
\* section and at a sub-moment of it.
EntrancesTrack ==
    [title |-> <<"E">>,
     ensemble |-> <<P, Q>>,
     standardSectionLength |-> Sec(30),
     timeline |-> <<
        Entry(<<"1", "0">>, [part |-> Intro, musicians |-> (band :> In)]),
        Entry(section \o <<"1">>, <<
            Entry(part, Verse),
            Entry(<<"m", "u", "s", "i", "c", "i", "a", "n", "s">>, (Q :> Out)),
            Entry(<<"4", "5">>, [musicians |-> (Q :> In)]) >>) >>]

\* Four soloists one after the other, each coming in as the solo starts, and
\* no soloist before 5 s and from 40 s on.
R == <<"R">>
S == <<"S">>

RotationTrack ==
    [title |-> <<"R">>,
     ensemble |-> <<P, Q, R, S>>,
     timeline |-> <<
        Entry(<<"0">>, [part |-> Intro]),
        Entry(<<"5">>, [solo |-> P, musicians |-> (P :> In)]),
        Entry(<<"1", "0">>, [soloist |-> Q, musicians |-> (Q :> In)]),
        Entry(<<"2", "0">>, [solo |-> R, musicians |-> (R :> In)]),
        Entry(<<"3", "0">>, [solo |-> S, musicians |-> (S :> In)]),
        Entry(<<"4", "0">>, [part |-> Chorus, musicians |-> (band :> Out)]) >>]

\* The player has not been created (RabbitholePlayer.player is null).
NoTrack == [title |-> null]

\* Observation of a step of the player: the method that ran, the time it ran
\* at, the arrangement and the part index it arrived at, and the moments it
\* handed to triggerMoment.
Seen(op, time, arrangement, partIndex, moments) ==
    [op |-> op, time |-> time, arrangement |-> arrangement,
     partIndex |-> partIndex, moments |-> moments, status |-> undefined]

\* constructor, lines 10-43
newWebampChartifacts(track) ==
    /\ trackData = NoTrack
    /\ trackData' = track
    /\ currentSolo' = null
    /\ timeUpdateInterval' = FALSE
    /\ allMomentTimes' = extractMomentTimes(track)
    /\ upcomingMomentTimes' = extractMomentTimes(track)
    /\ recentSoloists' = <<>>
    /\ musicianWeights' = initializeMusicianWeights(track)
    /\ _processedTimeline' = NotCached
    /\ _cachedSongParts' = NotCached
    /\ triggered' = <<>>
    /\ shown' = Seen("constructor", 0, NoArrangement, -1, <<>>)
    /\ UNCHANGED rabbitholeVars

\* A loadNewSong that keeps the caches of the track before.
loadNewSongKeepingCaches(newTrackData) ==
    /\ trackData # NoTrack
    /\ timeUpdateInterval' = FALSE
    /\ trackData' = newTrackData
    /\ currentSolo' = null
    /\ allMomentTimes' = extractMomentTimes(newTrackData)
    /\ upcomingMomentTimes' = extractMomentTimes(newTrackData)
    /\ musicianWeights' = initializeMusicianWeights(newTrackData)
    /\ triggered' = <<>>
    /\ shown' = Seen("loadNewSong", 0, NoArrangement, -1, <<>>)
    /\ UNCHANGED <<_cachedSongParts, _processedTimeline, recentSoloists, rabbitholeVars>>

\* loadNewSong, lines 1965-2020
loadNewSong(newTrackData) ==
    /\ trackData # NoTrack
    /\ timeUpdateInterval' = FALSE
    /\ trackData' = newTrackData
    /\ currentSolo' = null
    /\ _cachedSongParts' = NotCached
    /\ _processedTimeline' = NotCached
    /\ allMomentTimes' = extractMomentTimes(newTrackData)
    /\ upcomingMomentTimes' = extractMomentTimes(newTrackData)
    /\ musicianWeights' = initializeMusicianWeights(newTrackData)
    /\ triggered' = <<>>
    /\ shown' = Seen("loadNewSong", 0, NoArrangement, -1, <<>>)
    /\ UNCHANGED <<recentSoloists, rabbitholeVars>>

\* The store reports PLAYING: lines 555-559 and startTimeTracking, 590-605
startTimeTracking ==
    /\ trackData # NoTrack
    /\ ~timeUpdateInterval
    /\ timeUpdateInterval' = TRUE
    /\ shown' = Seen("startTimeTracking", 0, NoArrangement, -1, <<>>)
    /\ UNCHANGED <<trackData, _processedTimeline, _cachedSongParts, allMomentTimes,
                   upcomingMomentTimes, currentSolo, recentSoloists, musicianWeights,
                   triggered, rabbitholeVars>>

\* The store reports another status: lines 560-563 and stopTimeTracking,
\* 1841-1846
stopTimeTracking ==
    /\ trackData # NoTrack
    /\ timeUpdateInterval
    /\ timeUpdateInterval' = FALSE
    /\ shown' = Seen("stopTimeTracking", 0, NoArrangement, -1, <<>>)
    /\ UNCHANGED <<trackData, _processedTimeline, _cachedSongParts, allMomentTimes,
                   upcomingMomentTimes, currentSolo, recentSoloists, musicianWeights,
                   triggered, rabbitholeVars>>

\* extractSongParts, lines 641-667: what a call returns (and leaves in
\* _cachedSongParts)
songPartsNow ==
    IF _cachedSongParts.cached
    THEN _cachedSongParts.value
    ELSE songParts(processTimelineKeys(_processedTimeline, trackData))

\* checkForMoments that leaves the moments it triggered in the list
upcomingAfterKeepingDue(currentTime) ==
    SelectSeq(upcomingMomentTimes,
              LAMBDA momentTime : currentTime - momentTime <= Sec(1))

\* checkForMoments, line 1766
upcomingAfter(currentTime) == momentsNotYetReached(upcomingMomentTimes, currentTime)

\* A tick of the interval: updateStatusDisplay, updateEnsembleDisplay, lines
\* 591-609 and 1039-1187, with timeElapsed = currentTime in the store
updateEnsembleDisplay(currentTime) ==
    LET timeline == processTimelineKeys(_processedTimeline, trackData)
        arrangement == arrangementAt(timeline, currentTime)
        previousSolo == currentSolo
    IN
    /\ trackData # NoTrack
    /\ timeUpdateInterval
    /\ _processedTimeline' = Cached(timeline)
    /\ recentSoloists' =
           IF TruthyString(previousSolo) /\ soloOf(arrangement) # previousSolo
           THEN addRecentSoloist(recentSoloists, previousSolo)
           ELSE recentSoloists
    /\ currentSolo' = soloOf(arrangement)
    /\ upcomingMomentTimes' = upcomingAfter(currentTime)
    /\ triggered' = triggered \o momentsToTrigger(upcomingMomentTimes, currentTime)
    /\ _cachedSongParts' = Cached(songPartsNow)
    /\ shown' = Seen("updateEnsembleDisplay", currentTime, arrangement,
                     partIndexAt(timeline, currentTime),
                     momentsToTrigger(upcomingMomentTimes, currentTime))
    /\ UNCHANGED <<trackData, allMomentTimes, musicianWeights, timeUpdateInterval,
                   rabbitholeVars>>

\* getCurrentArrangement, lines 938-944, called outside a tick
getCurrentArrangement(currentTime) ==
    LET timeline == processTimelineKeys(_processedTimeline, trackData) IN
    /\ trackData # NoTrack
    /\ _processedTimeline' = Cached(timeline)
    /\ shown' = Seen("getCurrentArrangement", currentTime,
                     arrangementAt(timeline, currentTime), -1, <<>>)
    /\ UNCHANGED <<trackData, _cachedSongParts, allMomentTimes, upcomingMomentTimes,
                   currentSolo, recentSoloists, musicianWeights, timeUpdateInterval,
                   triggered, rabbitholeVars>>

\* extractSongParts, lines 641-667, called outside a tick (populatePartsContainer)
extractSongParts ==
    /\ trackData # NoTrack
    /\ _processedTimeline' =
           IF _cachedSongParts.cached THEN _processedTimeline
           ELSE Cached(processTimelineKeys(_processedTimeline, trackData))
    /\ _cachedSongParts' = Cached(songPartsNow)
    /\ shown' = Seen("extractSongParts", 0, NoArrangement, -1, <<>>)
    /\ UNCHANGED <<trackData, allMomentTimes, upcomingMomentTimes, currentSolo,
                   recentSoloists, musicianWeights, timeUpdateInterval, triggered,
                   rabbitholeVars>>

\* getCurrentPartIndex, lines 688-711, with timeElapsed = currentTime in the store
getCurrentPartIndex(currentTime) ==
    LET timeline == processTimelineKeys(_processedTimeline, trackData) IN
    /\ trackData # NoTrack
    /\ _processedTimeline' = Cached(timeline)
    /\ shown' = Seen("getCurrentPartIndex", currentTime, NoArrangement,
                     partIndexAt(timeline, currentTime), <<>>)
    /\ UNCHANGED <<trackData, _cachedSongParts, allMomentTimes, upcomingMomentTimes,
                   currentSolo, recentSoloists, musicianWeights, timeUpdateInterval,
                   triggered, rabbitholeVars>>

\* getMusicianStatus, lines 1804-1831, and calculatePickupWeight, lines
\* 756-778: lookups that only read the processed timeline
getMusicianStatus(musicianName, currentTime) ==
    LET timeline == processTimelineKeys(_processedTimeline, trackData) IN
    /\ trackData # NoTrack
    /\ _processedTimeline' = Cached(timeline)
    /\ shown' = [Seen("getMusicianStatus", currentTime, NoArrangement, -1, <<>>)
                 EXCEPT !.status = musicianStatus(timeline, musicianName, currentTime)]
    /\ UNCHANGED <<trackData, _cachedSongParts, allMomentTimes, upcomingMomentTimes,
                   currentSolo, recentSoloists, musicianWeights, timeUpdateInterval,
                   triggered, rabbitholeVars>>

\* The weight updateMusicianCard computes for a musician, lines 819-822, at
\* the time and with the arrangement of the step observed
weightShown(musicianName) ==
    calculateDynamicWeight(_processedTimeline.value, musicianWeights, recentSoloists,
                           musicianName, shown.time, shown.arrangement)

\* processTimelineKeys, lines 946-1017: what a call writes to the console or
\* throws.  The method has no console call and no throw, whatever the track.
reported(track) == <<>>

\* processTimelineKeys, lines 946-1017, called on its own
callProcessTimelineKeys ==
    /\ trackData # NoTrack
    /\ _processedTimeline' = Cached(processTimelineKeys(_processedTimeline, trackData))
    /\ shown' = Spread(Seen("processTimelineKeys", 0, NoArrangement, -1, <<>>),
                       [reported |-> reported(trackData)])
    /\ UNCHANGED <<trackData, _cachedSongParts, allMomentTimes, upcomingMomentTimes,
                   currentSolo, recentSoloists, musicianWeights, timeUpdateInterval,
                   triggered, rabbitholeVars>>

----------------------------------------------------------------------------
(* Specifications *)

\* The whole machine: every operation of RabbitholeState and RabbitholePlayer,
\* with every input.
Next ==
    \/ Construct
    \/ clear
    \/ \E m \in Musicians : setFollowingMusician(m)
    \/ \E m \in Musicians : queueNextSongByMusician(m)
    \/ \E task \in BagToSet(pending), response \in ConnectionResponses :
           connectionsArrive(task, response)
    \/ \E s \in Slugs : setCurrentSong(s)
    \/ popNextSong
    \/ \E s \in Slugs : addToQueue(s)
    \/ goBack
    \/ \E s \in Slugs : playSong(s)
    \/ \E task \in BagToSet(pending) : songArrives(task)
    \/ playNext
    \/ \E task \in BagToSet(pending) : requeue(task)
    \/ playPrevious
    \/ \E m \in Musicians : followMusician(m)

Spec == Init /\ [][Next]_vars

(* The properties are checked under the specifications below.  Each one is
   the machine restricted to the operations its properties speak of and to
   the inputs that bring their cases about. *)

\* Selection of the next song: a host plays a and b, follows musicians and
\* asks for recommendations; lookups answer in any order with any response.
SelectionSlugs == {a, b}

NextSelection ==
    \/ \E s \in SelectionSlugs : setCurrentSong(s)
    \/ \E m \in Musicians : setFollowingMusician(m)
    \/ \E m \in Musicians : queueNextSongByMusician(m)
    \/ \E task \in BagToSet(pending), response \in ConnectionResponses :
           connectionsArrive(task, response)

SpecSelection == InitFresh /\ [][NextSelection]_vars

\* History and going back: songs in and out of the catalog are played while
\* P is followed; the host goes back and clears.
HistorySlugs == {a, b, z}
HistoryMusicians == {P}

NextHistory ==
    \/ \E s \in HistorySlugs : setCurrentSong(s)
    \/ \E m \in HistoryMusicians : setFollowingMusician(m)
    \/ \E task \in BagToSet(pending), response \in ConnectionResponses :
           connectionsArrive(task, response)
    \/ popNextSong
    \/ goBack
    \/ clear

SpecHistory == InitFresh /\ [][NextHistory]_vars

\* playNext over the state machine, next to direct calls of setCurrentSong.
PlayNextSlugs == {a, z}
PlayNextResponses ==
    {r \in ConnectionResponses : r.items \in {<<>>, << <<"A">>, <<"Z">> >>}}

NextPlayNext ==
    \/ \E s \in PlayNextSlugs : setCurrentSong(s)
    \/ \E m \in Musicians : setFollowingMusician(m)
    \/ \E task \in BagToSet(pending), response \in PlayNextResponses :
           connectionsArrive(task, response)
    \/ playNext
    \/ \E task \in BagToSet(pending) : songArrives(task)
    \/ \E task \in BagToSet(pending) : requeue(task)

SpecPlayNext == InitFresh /\ [][NextPlayNext]_vars

\* The queue: recommendations are queued and popped, and a host adds c.
QueueSlugs == {b}
QueueInputs == {c}

NextQueue ==
    \/ \E s \in QueueSlugs : setCurrentSong(s)
    \/ \E m \in Musicians : setFollowingMusician(m)
    \/ \E task \in BagToSet(pending), response \in ConnectionResponses :
           connectionsArrive(task, response)
    \/ popNextSong
    \/ \E s \in QueueInputs : addToQueue(s)

SpecQueue == InitFresh /\ [][NextQueue]_vars

\* Persistence: the page is loaded over whatever the key holds, songs are
\* played, P is followed, the host goes back, and the page is loaded again.
StorageSlugs == {a, b}
StorageMusicians == {P}

NextStorage ==
    \/ Construct
    \/ \E s \in StorageSlugs : setCurrentSong(s)
    \/ \E m \in StorageMusicians : setFollowingMusician(m)
    \/ \E task \in BagToSet(pending), response \in ConnectionResponses :
           connectionsArrive(task, response)
    \/ goBack

SpecStorage == Init /\ [][NextStorage]_vars

\* The player as its host drives it: songs are played, musicians are
\* followed, the host goes on to the next song and back to the previous one,
\* while lookups answer in any order with no song or with the song C.
PlayerSlugs == {a, c}
PlayerResponses ==
    {r \in ConnectionResponses : r.t = "list" /\ r.items \in {<<>>, << <<"C">> >>}}

NextPlayer ==
    \/ \E s \in PlayerSlugs : playSong(s)
    \/ \E m \in Musicians : followMusician(m)
    \/ playNext
    \/ playPrevious
    \/ \E task \in BagToSet(pending) : songArrives(task)
    \/ \E task \in BagToSet(pending), response \in PlayerResponses :
           connectionsArrive(task, response)
    \/ \E task \in BagToSet(pending) : requeue(task)

SpecPlayer == InitFresh /\ [][NextPlayer]_vars

\* The timeline resolver: a player is created over a track with sections (or
\* the track without), tracks are loaded, and the timeline is queried by
\* ticks and by direct calls, in any order and at any of these times.
TimelineTracks == <<SectionsTrack, LengthsTrack, MomentsTrack>>
TimelineTimes == {Sec(0), Sec(10), Sec(30), Sec(40), Sec(45), Sec(70)}
TimelineQueryTimes == {Sec(0), Sec(45)}

NextTimeline ==
    \/ \E i \in 1..Len(TimelineTracks) : newWebampChartifacts(TimelineTracks[i])
    \/ \E i \in 1..Len(TimelineTracks) : loadNewSong(TimelineTracks[i])
    \/ startTimeTracking
    \/ \E currentTime \in TimelineTimes : updateEnsembleDisplay(currentTime)
    \/ \E currentTime \in TimelineQueryTimes : getCurrentArrangement(currentTime)
    \/ extractSongParts
    \/ \E currentTime \in TimelineQueryTimes : getCurrentPartIndex(currentTime)
    \/ \E musicianName \in Musicians, currentTime \in TimelineQueryTimes :
           getMusicianStatus(musicianName, currentTime)

SpecTimeline == InitFresh /\ [][NextTimeline]_vars

\* Moments and weights: tracks without sections are played, paused, sought
\* forward and backward, and replaced.
MomentsTracks == <<MomentsTrack, LegacyTrack, SectionsTrack>>
MomentsTimes == {Sec(0), Sec(49), Sec(50), Sec(50) + 1, Sec(51), Sec(52), Sec(60)}

NextMoments ==
    \/ \E i \in 1..Len(MomentsTracks) : newWebampChartifacts(MomentsTracks[i])
    \/ \E i \in 1..Len(MomentsTracks) : loadNewSong(MomentsTracks[i])
    \/ startTimeTracking
    \/ stopTimeTracking
    \/ \E currentTime \in MomentsTimes : updateEnsembleDisplay(currentTime)

SpecMoments == InitFresh /\ [][NextMoments]_vars

\* The resolver alone: tracks with sections, colliding keys, a key that is
\* not a time and a section above 20 are loaded and resolved.
ResolverTracks == <<SectionsTrack, ManySectionsTrack, EntrancesTrack>> \o KeyedTracks

NextResolver ==
    \/ \E i \in 1..Len(ResolverTracks) : newWebampChartifacts(ResolverTracks[i])
    \/ \E i \in 1..Len(ResolverTracks) : loadNewSong(ResolverTracks[i])
    \/ startTimeTracking
    \/ stopTimeTracking
    \/ callProcessTimelineKeys

SpecResolver == InitFresh /\ [][NextResolver]_vars

\* The recency list: the track with four soloists is played, sought forward
\* and backward, and loaded again.
RecencyTracks == <<RotationTrack>>
RecencyTimes == {Sec(0), Sec(5), Sec(10), Sec(20), Sec(30), Sec(40)}

NextRecency ==
    \/ \E i \in 1..Len(RecencyTracks) : newWebampChartifacts(RecencyTracks[i])
    \/ \E i \in 1..Len(RecencyTracks) : loadNewSong(RecencyTracks[i])
    \/ startTimeTracking
    \/ \E currentTime \in RecencyTimes : updateEnsembleDisplay(currentTime)

SpecRecency == InitFresh /\ [][NextRecency]_vars

----------------------------------------------------------------------------
(* Properties *)

\* A step is the continuation of queueNextSongByMusician after its await.
Queued == last'.op = "queueNextSongByMusician"

\* Every entry of a connections list is excluded: not in the catalog, already
\* played, or the current song.
AllExcluded(items) ==
    \A i \in 1..Len(items) :
        \/ normalizeSlug(items[i]) \notin DOMAIN Catalog
        \/ normalizeSlug(items[i]) \in playedSongs
        \/ normalizeSlug(items[i]) = currentSongSlug

\* C1: whenever queueNextSongByMusician selects a song (it notifies a record
\* with a slug), the queue is exactly that slug, nextSong names it, and the slug
\* is a key of the catalog, was not in playedSongs and was not the current song
\* when it was selected; with catalog {a,b,c}, playedSongs = {a} and current
\* song b, the selected slug is c.
C1_SelectionExcludesPlayedAndCurrent ==
    [][(Queued /\ last'.queued # <<>> /\ last'.queued[1].songSlug # null) =>
         LET slug == last'.queued[1].songSlug IN
         /\ queue' = <<slug>>
         /\ nextSong'.songSlug = slug
         /\ slug \in DOMAIN Catalog
         /\ slug \notin playedSongs
         /\ slug # currentSongSlug
         /\ (DOMAIN Catalog = {a, b, c} /\ playedSongs = {a} /\ currentSongSlug = b)
                => slug = c]_vars

\* C1 witness: with a played and b current, a selection has just queued c.
C1_Witness ==
    /\ last.op = "queueNextSongByMusician"
    /\ last.queued # <<>>
    /\ playedSongs = {a}
    /\ currentSongSlug = b
    /\ queue = <<c>>
    /\ nextSong.songSlug = c

\* C2: when the connections list that arrives has every entry excluded (the
\* empty list included), nextSong becomes a record whose songSlug is null and
\* whose viaMusician is the requested musician, and onNextSongQueued is called
\* exactly once, with that record; nothing is raised.
C2_NoCandidateSentinel ==
    [][\A task \in BagToSet(pending), response \in ConnectionResponses :
         (response.t = "list" /\ AllExcluded(response.items)
            /\ connectionsArrive(task, response)) =>
         /\ nextSong'.songSlug = null
         /\ nextSong'.viaMusician = task.arg
         /\ nextSong' # NoSong
         /\ last'.queued = <<nextSong'>>
         /\ ~last'.raised]_vars

\* C2 witness: a lookup for a musician who is not the followed one has just
\* ended with the sentinel, notified once, while a song was current.
C2_Witness ==
    /\ last.op = "queueNextSongByMusician"
    /\ last.queued = <<nextSong>>
    /\ nextSong.songSlug = null
    /\ nextSong.viaMusician \in Musicians
    /\ nextSong.viaMusician # followingMusician
    /\ currentSongSlug # null

\* C3: when the lookup yields no data (null), nextSong becomes the sentinel
\* for the requested musician and onNextSongQueued is called with it; nothing
\* is raised.
C3_NoDataYieldsSentinel ==
    [][\A task \in BagToSet(pending), response \in ConnectionResponses :
         (response.t = "null" /\ connectionsArrive(task, response)) =>
         /\ nextSong'.songSlug = null
         /\ nextSong'.viaMusician = task.arg
         /\ last'.queued = <<nextSong'>>
         /\ ~last'.raised]_vars

\* A step runs setCurrentSong: called directly, or by playSong.
SetsCurrentSong == last'.op \in {"setCurrentSong", "playSong"}

IsPrefix(s, t) == Len(s) <= Len(t) /\ SubSeq(t, 1, Len(s)) = s

\* C4 as stated: a goBack that pops the entry of p restores p as the current
\* song and removes it from playedSongs, so that isPlayable(p) holds.
C4_GoBackRestoresCurrentSong ==
    [][\A p \in Slugs :
         (last'.op = "goBack" /\ Len(history) > 0 /\ history[Len(history)].songSlug = p) =>
         /\ currentSongSlug' = p
         /\ p \notin playedSongs'
         /\ isPlayable(p)']_vars

\* C4 amended: when a song p of the catalog is current and setCurrentSong runs
\* with a recommendation present, the entry of p becomes the last of history
\* and p is played; a goBack that pops the entry of p removes it from history
\* and p from playedSongs and leaves the current song as it was, so that
\* isPlayable(p) holds afterwards exactly when p is not the current song.
C4_GoBackSymmetry ==
    [][\A p \in Slugs :
         /\ (SetsCurrentSong /\ currentSongSlug = p /\ InCatalog(p) /\ nextSong # NoSong) =>
              /\ history' # <<>>
              /\ history'[Len(history')].songSlug = p
              /\ p \in playedSongs'
         /\ (last'.op = "goBack" /\ Len(history) > 0 /\ history[Len(history)].songSlug = p) =>
              /\ history' = SubSeq(history, 1, Len(history) - 1)
              /\ p \notin playedSongs'
              /\ currentSongSlug' = currentSongSlug
              /\ isPlayable(p)' <=> p # currentSongSlug]_vars

\* C4 witness: a was played before b (the storage still lists it), goBack has
\* just popped its entry, and a is playable again while b is still current.
C4_Witness ==
    /\ last.op = "goBack"
    /\ history = <<>>
    /\ storageItem = saveToStorage(P, {a}, b, Same)
    /\ playedSongs = {}
    /\ currentSongSlug = b
    /\ isPlayable(a)

\* C5 as stated: setCurrentSong with a previous current song p and a
\* recommendation present appends exactly one entry, for p and the musician of
\* the recommendation, and otherwise leaves history alone; an entry appended on
\* behalf of playNext never names the new song.
C5_HistoryEntryForPrevious ==
    [][SetsCurrentSong =>
         /\ IF Truthy(currentSongSlug) /\ nextSong # NoSong
            THEN /\ Len(history') = Len(history) + 1
                 /\ IsPrefix(history, history')
                 /\ history'[Len(history')].songSlug = currentSongSlug
                 /\ history'[Len(history')].viaMusician = nextSong.viaMusician
            ELSE history' = history
         /\ (last'.op = "playSong" /\ history' # history) =>
                history'[Len(history')].songSlug # currentSongSlug']_vars

\* C5 amended: setCurrentSong with a previous current song p that is in the
\* catalog and a recommendation present appends exactly one entry, for p and the
\* musician of the recommendation, and otherwise leaves history alone; the
\* entry names the new song only when the new song is p itself.
C5_HistoryEntryForPreviousInCatalog ==
    [][SetsCurrentSong =>
         /\ IF Truthy(currentSongSlug) /\ nextSong # NoSong
               /\ currentSongSlug \in DOMAIN Catalog
            THEN /\ Len(history') = Len(history) + 1
                 /\ IsPrefix(history, history')
                 /\ history'[Len(history')].songSlug = currentSongSlug
                 /\ history'[Len(history')].viaMusician = nextSong.viaMusician
            ELSE history' = history
         /\ (history' # history /\ currentSongSlug' # currentSongSlug) =>
                history'[Len(history')].songSlug # currentSongSlug']_vars

\* C5 witness: playNext has played the song that was already current, and the
\* entry it appended names that song, via a musician no longer followed.
C5_Witness ==
    /\ last.op = "playSong"
    /\ history # <<>>
    /\ history[Len(history)].songSlug = currentSongSlug
    /\ history[Len(history)].viaMusician # followingMusician

\* C6 as stated: only goBack shrinks the session records; under every other
\* operation playedSongs loses no element and history keeps its entries in
\* order; goBack removes the last entry and its slug from playedSongs.
C6_OnlyGoBackShrinks ==
    [][/\ last'.op # "goBack" =>
            (playedSongs \subseteq playedSongs' /\ IsPrefix(history, history'))
       /\ (last'.op = "goBack" /\ Len(history) > 0) =>
            /\ history' = SubSeq(history, 1, Len(history) - 1)
            /\ playedSongs' = playedSongs \ {history[Len(history)].songSlug}]_vars

\* C6 amended: only goBack and clear shrink the session records; under every
\* other operation playedSongs loses no element and history keeps its entries
\* in order; goBack removes the last entry and its slug from playedSongs (and
\* nothing on an empty history); clear empties both.
C6_OnlyGoBackAndClearShrink ==
    [][/\ last'.op \notin {"goBack", "clear"} =>
            (playedSongs \subseteq playedSongs' /\ IsPrefix(history, history'))
       /\ (last'.op = "goBack" /\ Len(history) > 0) =>
            /\ history' = SubSeq(history, 1, Len(history) - 1)
            /\ playedSongs' = playedSongs \ {history[Len(history)].songSlug}
       /\ (last'.op = "goBack" /\ Len(history) = 0) =>
            (history' = history /\ playedSongs' = playedSongs)
       /\ last'.op = "clear" => (history' = <<>> /\ playedSongs' = {})]_vars

\* C6 witness: two songs were played (the storage lists both), goBack has
\* popped the second entry and its song, and the first entry is still there.
C6_Witness ==
    /\ last.op = "goBack"
    /\ Len(history) = 1
    /\ storageItem.t = "json"
    /\ Len(storageItem.v.fields.playedSongs.items) = 2
    /\ playedSongs = {history[1].songSlug}

\* C7 as stated: in every reachable state the queue holds at most one slug.
C7_AtMostOnePending == Len(queue) <= 1

\* C7 amended: no operation other than addToQueue lets the queue hold more
\* than one slug: a selection leaves exactly the selected slug in it, a lookup
\* that fails or returns no data leaves queue and nextSong as they were, and
\* every other operation leaves it no longer than it was; addToQueue appends
\* one slug to whatever the queue holds.
C7_OnlyAddToQueueLengthens ==
    [][/\ last'.op # "addToQueue" => (Len(queue') <= 1 \/ Len(queue') <= Len(queue))
       /\ (Queued /\ last'.queued # <<>> /\ last'.queued[1].songSlug # null) =>
            (queue' = <<nextSong'.songSlug>> /\ last'.queued = <<nextSong'>>)
       /\ (Queued /\ last'.queued = <<>>) => (queue' = queue /\ nextSong' = nextSong)
       /\ last'.op = "addToQueue" =>
            (Len(queue') = Len(queue) + 1 /\ IsPrefix(queue, queue'))]_vars

\* C7 witness: a lookup has just failed while one recommendation is pending;
\* the queue still holds exactly that recommendation.
C7_Witness ==
    /\ last.op = "queueNextSongByMusician"
    /\ last.raised
    /\ Len(queue) = 1
    /\ nextSong.songSlug = queue[1]

\* The stored record holds the values in memory.
PersistedMatches ==
    /\ storageItem.t = "json"
    /\ storageItem.v.j = "obj"
    /\ Property(storageItem.v, "followingMusician") = ToJson(followingMusician)
    /\ Property(storageItem.v, "currentSongSlug") = ToJson(currentSongSlug)
    /\ Property(storageItem.v, "playedSongs").j = "arr"
    /\ NewSet(Property(storageItem.v, "playedSongs")) = playedSongs

\* C8: after setFollowingMusician, setCurrentSong or goBack has changed
\* followingMusician, playedSongs or currentSongSlug, the stored record holds
\* the values in memory.
C8_PersistedAfterEveryMutation ==
    [][(/\ last'.op \in {"setFollowingMusician", "setCurrentSong", "goBack"}
        /\ <<followingMusician, playedSongs, currentSongSlug>>' #
               <<followingMusician, playedSongs, currentSongSlug>>)
         => PersistedMatches']_vars

\* C9: an instance constructed over the record another instance saved starts
\* with that instance's followingMusician, playedSongs, currentSongSlug and
\* followMode.
C9_SaveLoadRoundTrip ==
    [][(/\ last'.op = "constructor"
        /\ storageItem = saveToStorage(followingMusician, playedSongs,
                                       currentSongSlug, followMode))
         => /\ followingMusician' = followingMusician
            /\ playedSongs' = playedSongs
            /\ currentSongSlug' = currentSongSlug
            /\ followMode' = followMode]_vars

\* The stored item is absent, unparseable, or parses to something that is not
\* a record with an array of played songs.
Unusable(item) ==
    \/ item.t # "json"
    \/ item.v.j # "obj"
    \/ Property(item.v, "playedSongs").j \notin {"undefined", "arr"}

\* C10: an instance constructed over an absent, unparseable or wrongly shaped
\* record is in the empty initial state.
C10_CorruptStorageGivesEmptyState ==
    (last.op = "constructor" /\ Unusable(storageItem)) =>
        /\ followingMusician = null
        /\ playedSongs = {}
        /\ currentSongSlug = null
        /\ history = <<>>
        /\ queue = <<>>

\* C11: every call of setFollowingMusician, a call naming the musician already
\* followed included, leaves that musician followed, saves the record with it,
\* calls onStateChange once and starts one more lookup for that musician.
C11_FollowAlwaysStartsSelection ==
    [][last'.op = "setFollowingMusician" =>
         /\ followingMusician' \in Musicians
         /\ storageItem' = saveToStorage(followingMusician', playedSongs,
                                         currentSongSlug, followMode)
         /\ last'.changes = 1
         /\ pending' = pending (+) SetToBag({Lookup(followingMusician')})]_vars

\* P was followed, with its lookup still in flight, and has been followed again.
C11_Witness ==
    /\ last.op = "setFollowingMusician"
    /\ followingMusician = P
    /\ CopiesIn(Lookup(P), pending) = 2

----------------------------------------------------------------------------
(* Properties of the chart player *)

\* The step is a tick of the interval.
Ticked == shown'.op = "updateEnsembleDisplay"

\* The step called processTimelineKeys.
Resolved ==
    shown'.op \in {"updateEnsembleDisplay", "getCurrentArrangement", "extractSongParts",
                   "getCurrentPartIndex", "getMusicianStatus"}

\* The step answered getCurrentArrangement(shown'.time).
Arranged == shown'.op \in {"updateEnsembleDisplay", "getCurrentArrangement"}

\* The step answered getCurrentPartIndex at shown'.time.
Indexed == shown'.op \in {"updateEnsembleDisplay", "getCurrentPartIndex"}

Elements(seq) == {seq[i] : i \in 1..Len(seq)}

\* The times of the keys of a timeline
KeyTimes(timeline) == {Number(timeline[i].k) : i \in 1..Len(timeline)}

Greatest(numbers) == CHOOSE n \in numbers : \A other \in numbers : other <= n

\* C12: for a fixed track the timeline is resolved once and does not depend on
\* the time or the order of the queries: whichever query runs, the mapping it
\* leaves cached is the one a first call computes from the track, a mapping
\* already cached is kept as it is, and getCurrentArrangement(t) answers what
\* it answers on that mapping.
C12_ResolvedOnceAndTimeIndependent ==
    [][Resolved =>
         /\ _processedTimeline'.cached
         /\ _processedTimeline'.value = processed(trackData)
         /\ _processedTimeline.cached => _processedTimeline' = _processedTimeline
         /\ Arranged => shown'.arrangement =
                            arrangementAt(processed(trackData), shown'.time)]_vars

\* The track with sections has been queried for its parts and, after that, for
\* its arrangement at 45 s, where it has a sub-moment.
C12_Witness ==
    /\ shown.op = "getCurrentArrangement"
    /\ shown.time = Sec(45)
    /\ hasStandardSectionLength(trackData)
    /\ _cachedSongParts.cached
    /\ Flag(shown.arrangement, "_isSubMoment")

\* The sections a timeline has, in the order section1, section2, ...
PresentSections(track) ==
    LET numbers == {i \in 1..MaxSections : HasKey(track.timeline, section \o Digits(i))}
        RECURSIVE ascending(_)
        ascending(rest) ==
            IF rest = {} THEN <<>>
            ELSE LET least == CHOOSE i \in rest : \A j \in rest : i <= j IN
                 <<At(track.timeline, section \o Digits(least))>>
                 \o ascending(rest \ {least})
    IN ascending(numbers)

\* A section's own length if it has one, the standard length otherwise
OwnOrStandardLength(sectionData, track) ==
    IF \E i \in 1..Len(sectionData) : sectionData[i].k = length
    THEN At(sectionData, length)
    ELSE track.standardSectionLength

\* The greatest explicit time, 0 if there is none
GreatestExplicitTime(track) ==
    LET times == {parseFloat(track.timeline[i].k) :
                     i \in {j \in 1..Len(track.timeline) :
                               ~startsWithSection(track.timeline[j].k)}}
    IN IF times = {} THEN 0 ELSE Greatest(times)

RECURSIVE SumOfLengths(_, _, _)
SumOfLengths(sections, i, track) ==
    IF i = 0 THEN 0
    ELSE SumOfLengths(sections, i - 1, track) + OwnOrStandardLength(sections[i], track)

\* The start of the i-th present section
ExpectedStart(track, i) ==
    GreatestExplicitTime(track) + SumOfLengths(PresentSections(track), i, track)

\* C13: with standardSectionLength set, the resolved timeline has a section
\* start at, for the i-th present section, the greatest explicit time (0 if
\* there is none) plus the lengths of sections 1..i, each its own length or
\* the standard one, and nowhere else; with a standard length of 30 s, one
\* explicit entry at 10 s and two plain sections, the starts are 40 s and 70 s.
C13_SectionStartsAccumulate ==
    (_processedTimeline.cached /\ hasStandardSectionLength(trackData)) =>
        LET timeline == _processedTimeline.value
            starts == {Number(timeline[i].k) :
                          i \in {j \in 1..Len(timeline) :
                                    Flag(timeline[j].v, "_isSectionStart")}}
        IN /\ starts = {ExpectedStart(trackData, i) :
                           i \in 1..Len(PresentSections(trackData))}
           /\ trackData.title = SectionsTrack.title => starts = {Sec(40), Sec(70)}

\* A tick at 70 s of the track with an explicit entry at 10 s and two plain
\* sections arrived at the start of section2.
C13_Witness ==
    /\ shown.op = "updateEnsembleDisplay"
    /\ shown.time = Sec(70)
    /\ trackData.title = SectionsTrack.title
    /\ Flag(shown.arrangement, "_isSectionStart")
    /\ shown.arrangement.part = Chorus

\* C14: in the resolved timeline, every numeric sub-key t of a section has at
\* time t the section's base fields merged with the sub-moment's fields, the
\* sub-moment's winning, flagged _isSubMoment, and every section has at its
\* start time its base fields flagged _isSectionStart.
C14_SubMomentsMergedOverBase ==
    (_processedTimeline.cached /\ hasStandardSectionLength(trackData)) =>
        \A i \in 1..Len(PresentSections(trackData)) :
            LET sectionData == PresentSections(trackData)[i]
                base == baseSectionData(sectionData)
            IN /\ At(_processedTimeline.value, String(ExpectedStart(trackData, i)))
                      = Spread(base, [_isSectionStart |-> TRUE])
               /\ \A j \in 1..Len(sectionData) :
                      ParsesAsFloat(sectionData[j].k) =>
                          At(_processedTimeline.value,
                             String(parseFloat(sectionData[j].k)))
                              = Spread(Spread(base, sectionData[j].v),
                                       [_isSubMoment |-> TRUE])

\* The times of the entries that contribute a part
PartTimes(timeline) ==
    {Number(timeline[i].k) :
        i \in {j \in 1..Len(timeline) :
                  /\ TruthyString(Field(timeline[j].v, "part"))
                  /\ \/ Flag(timeline[j].v, "_isSectionStart")
                     \/ ~Flag(timeline[j].v, "_isSubMoment")}}

\* C15: extractSongParts is the part labels, in ascending time, of the
\* resolved entries that have a part and are a section start or not a
\* sub-moment; getCurrentPartIndex at T is the position, in that sequence, of
\* the last of those entries at or before T, -1 if there is none, so it is -1
\* or an index of extractSongParts().
C15_PartIndexIntoSongParts ==
    [][(Indexed \/ shown'.op = "extractSongParts") =>
         LET timeline == processed(trackData)
             times == PartTimes(timeline)
             rank(t) == Cardinality({u \in times : u <= t})
             songPartsAfter ==
                 IF _cachedSongParts'.cached THEN _cachedSongParts'.value
                 ELSE songParts(_processedTimeline'.value)
         IN /\ Len(songPartsAfter) = Cardinality(times)
            /\ \A t \in times : songPartsAfter[rank(t)] = At(timeline, String(t)).part
            /\ Indexed =>
                  /\ shown'.partIndex = rank(shown'.time) - 1
                  /\ shown'.partIndex >= -1
                  /\ shown'.partIndex < Len(songPartsAfter)]_vars

\* A tick at 45 s of the track whose sub-moment at 40 s has a part: the
\* arrangement is the sub-moment, the part index is that of section1.
C15_Witness ==
    /\ shown.op = "updateEnsembleDisplay"
    /\ shown.time = Sec(45)
    /\ trackData.title = LengthsTrack.title
    /\ Flag(shown.arrangement, "_isSubMoment")
    /\ shown.arrangement.part = Break
    /\ shown.partIndex = 0
    /\ _cachedSongParts.value = <<Verse, Chorus>>

\* C16: getCurrentArrangement(T) is the resolved entry at the greatest key at
\* or before T, and none when T is before the first key; a tick at such a T
\* has no soloist and passes.
C16_ArrangementAtGreatestKey ==
    [][Arranged =>
         LET reached == {t \in KeyTimes(_processedTimeline'.value) : t <= shown'.time} IN
         IF reached = {}
         THEN /\ shown'.arrangement = NoArrangement
              /\ Ticked => currentSolo' = null /\ _cachedSongParts'.cached
         ELSE shown'.arrangement
                  = At(_processedTimeline'.value, String(Greatest(reached)))]_vars

\* A tick at 0 s of a track whose first key is at 10 s.
C16_Witness ==
    /\ shown.op = "updateEnsembleDisplay"
    /\ shown.time = Sec(0)
    /\ trackData.title = SectionsTrack.title
    /\ shown.arrangement = NoArrangement
    /\ currentSolo = null

\* C17: loadNewSong replaces the track, empties both caches and rebuilds the
\* moments from the new track in one step, and from then on every cache,
\* every arrangement a tick resolves and every moment that is pending or is
\* triggered is of the track that is loaded.
C17_LoadNewSongLeavesNothingStale ==
    [][/\ shown'.op = "loadNewSong" =>
              /\ ~_processedTimeline'.cached
              /\ ~_cachedSongParts'.cached
              /\ ~timeUpdateInterval'
              /\ triggered' = <<>>
       /\ shown'.op # "none" =>
              /\ _processedTimeline'.cached =>
                     _processedTimeline'.value = processed(trackData')
              /\ _cachedSongParts'.cached =>
                     _cachedSongParts'.value = songParts(processed(trackData'))
              /\ allMomentTimes' = extractMomentTimes(trackData')
              /\ Elements(upcomingMomentTimes') \subseteq Elements(allMomentTimes')
              /\ Elements(triggered') \subseteq Elements(allMomentTimes')
              /\ Ticked => shown'.arrangement =
                               arrangementAt(processed(trackData'), shown'.time)]_vars

\* A track with a solo was played, the legacy track was loaded over it, and a
\* tick of the legacy track at 60 s arrived at its entry and triggered its
\* moment.
C17_Witness ==
    /\ shown.op = "updateEnsembleDisplay"
    /\ shown.time = Sec(60)
    /\ trackData.title = LegacyTrack.title
    /\ recentSoloists # <<>>
    /\ shown.arrangement = At(LegacyTrack.timeline, <<"6", "0">>)
    /\ shown.moments = <<Sec(60)>>

\* The musician is featured in the arrangement: soloing, picking up, or in
\* the feature map.
Featured(musicianName, arrangement) ==
    \/ soloOf(arrangement) = musicianName
    \/ Field(arrangement, "solo") = musicianName
    \/ Field(arrangement, "soloist") = musicianName
    \/ Field(arrangement, "pickup") = musicianName
    \/ ("feature" \in DOMAIN arrangement /\ musicianName \in DOMAIN arrangement.feature)

\* C18: on every tick, the weight of the musician the arrangement names as
\* soloing (by solo or soloist) is less than the weight of every musician of
\* the ensemble who is not featured in the arrangement.
C18_SoloistOutweighsNonFeatured ==
    (shown.op = "updateEnsembleDisplay" /\ TruthyString(soloOf(shown.arrangement))) =>
        \A other \in DOMAIN musicianWeights :
            ~Featured(other, shown.arrangement) =>
                weightShown(soloOf(shown.arrangement)) < weightShown(other)

\* The number of times a moment was handed to triggerMoment since the load
TimesTriggered(momentTime) ==
    Cardinality({i \in 1..Len(triggered) : triggered[i] = momentTime})

\* C19: within one track load, whatever the times of the ticks, each moment
\* time is triggered at most once.
C19_MomentFiresAtMostOnce ==
    \A momentTime \in Elements(allMomentTimes) : TimesTriggered(momentTime) <= 1

\* C20: a tick at T keeps each pending moment m > T without triggering it,
\* triggers and removes each pending m with 0 <= T - m <= 1 s, and removes
\* without triggering each pending m with T - m > 1 s; only pending moments
\* are triggered, and nothing but a load makes a moment pending, so a moment
\* that was dropped is not triggered by any later tick.
C20_FutureDueMissed ==
    [][/\ Ticked =>
              /\ \A m \in Elements(upcomingMomentTimes) :
                     /\ m > shown'.time =>
                            /\ m \in Elements(upcomingMomentTimes')
                            /\ m \notin Elements(shown'.moments)
                     /\ (shown'.time - m >= 0 /\ shown'.time - m <= Sec(1)) =>
                            /\ m \notin Elements(upcomingMomentTimes')
                            /\ m \in Elements(shown'.moments)
                     /\ shown'.time - m > Sec(1) =>
                            /\ m \notin Elements(upcomingMomentTimes')
                            /\ m \notin Elements(shown'.moments)
              /\ Elements(shown'.moments) \subseteq Elements(upcomingMomentTimes)
              /\ triggered' = triggered \o shown'.moments
       /\ shown'.op \notin {"constructor", "loadNewSong"} =>
              Elements(upcomingMomentTimes') \subseteq Elements(upcomingMomentTimes)]_vars

\* The moment at 50 s was dropped by a tick after 51 s without being
\* triggered, and a tick at 50.5 s, after a seek backward, has not triggered
\* it either.
C20_Witness ==
    /\ shown.op = "updateEnsembleDisplay"
    /\ shown.time = Sec(50) + 1
    /\ trackData.title = MomentsTrack.title
    /\ allMomentTimes = <<Sec(50)>>
    /\ upcomingMomentTimes = <<>>
    /\ triggered = <<>>

\* The key is an explicit time: not a section, and a number.
IsExplicitTime(key) == ~startsWithSection(key) /\ ParsesAsFloat(key)

\* C21: with standardSectionLength set, every explicit numeric key k of the
\* raw timeline has, in the resolved timeline, the raw entry at time k,
\* unchanged: no section start and no sub-moment takes its place.
C21_ExplicitEntriesUnchanged ==
    (_processedTimeline.cached /\ hasStandardSectionLength(trackData)) =>
        \A i \in 1..Len(trackData.timeline) :
            LET k == trackData.timeline[i].k IN
            IsExplicitTime(k) =>
                /\ HasKey(_processedTimeline.value, String(parseFloat(k)))
                /\ At(_processedTimeline.value, String(parseFloat(k)))
                       = trackData.timeline[i].v

\* The track without the keys that are neither a time nor a section
WithoutBadKeys(track) ==
    [track EXCEPT !.timeline =
        SelectSeq(@, LAMBDA e : ParsesAsFloat(e.k) \/ startsWithSection(e.k))]

Keys(timeline) == {timeline[i].k : i \in 1..Len(timeline)}

\* C22: a key that is neither a number nor a section is skipped: the
\* resolved timeline has the keys and the entries, explicit ones and section
\* starts alike, that the track without that key resolves to.
C22_BadKeySkipped ==
    (_processedTimeline.cached /\ hasStandardSectionLength(trackData)) =>
        LET expected == processed(WithoutBadKeys(trackData)) IN
        /\ Keys(_processedTimeline.value) = Keys(expected)
        /\ \A key \in Keys(expected) :
               At(_processedTimeline.value, key) = At(expected, key)

\* The number of a section key
SectionNumber(key) == DecimalValue(SubSeq(key, Len(section) + 1, Len(key)))

\* C23: a section numbered above 20 gets no resolved entry, and the call
\* that resolves the timeline reports that it left the section out.
C23_TruncationSignaled ==
    (shown.op = "processTimelineKeys" /\ hasStandardSectionLength(trackData)) =>
        \A i \in 1..Len(trackData.timeline) :
            LET k == trackData.timeline[i].k IN
            (startsWithSection(k) /\ SectionNumber(k) > MaxSections) =>
                /\ \A j \in 1..Len(_processedTimeline.value) :
                       _processedTimeline.value[j].v
                           # Spread(baseSectionData(trackData.timeline[i].v),
                                    [_isSectionStart |-> TRUE])
                /\ shown.reported # <<>>

\* C25: the moment times of the loaded track hold every time t > 0 of the
\* resolved timeline at which a musician or the band comes in or goes out,
\* section starts and sub-moments included; they hold no time <= 0 and are
\* in ascending order, each time once.
C25_MomentTimesOfResolvedTimeline ==
    trackData # NoTrack =>
        LET timeline == processed(trackData)
            changing ==
                {Number(timeline[i].k) :
                    i \in {j \in 1..Len(timeline) :
                              /\ Number(timeline[j].k) > 0
                              /\ "musicians" \in DOMAIN timeline[j].v
                              /\ \E m \in DOMAIN timeline[j].v.musicians :
                                     timeline[j].v.musicians[m] \in {In, Out}}}
        IN /\ changing \subseteq Elements(allMomentTimes)
           /\ \A i \in 1..Len(allMomentTimes) : allMomentTimes[i] > 0
           /\ \A i, j \in 1..Len(allMomentTimes) :
                  i < j => allMomentTimes[i] < allMomentTimes[j]

\* The names of list other than name, in the order of list
Others(list, name) == SelectSeq(list, LAMBDA other : other # name)

\* C24: the recency list never holds more than 3 names nor a name twice; a
\* tick on which the featured musician changes from a musician p to anything
\* else puts p at the front, keeps the others in their order behind it and
\* drops what is beyond the third place; any other tick leaves the list as
\* it is.
C24_RecencyListBounded ==
    [][/\ Len(recentSoloists') <= 3
       /\ \A i, j \in 1..Len(recentSoloists') :
              i # j => recentSoloists'[i] # recentSoloists'[j]
       /\ Ticked =>
              IF TruthyString(currentSolo) /\ currentSolo' # currentSolo
              THEN LET others == Others(recentSoloists, currentSolo) IN
                   /\ recentSoloists'[1] = currentSolo
                   /\ Len(recentSoloists') = IF Len(others) >= 2 THEN 3 ELSE Len(others) + 1
                   /\ \A i \in 2..Len(recentSoloists') : recentSoloists'[i] = others[i - 1]
              ELSE recentSoloists' = recentSoloists]_vars

\* Since the track was loaded the moments at 5, 10, 20, 30 and 40 s fired in
\* this order, so that P, Q, R and S stopped soloing one after the other: the
\* list holds the last three and P, the oldest, has been dropped.
C24_Witness ==
    /\ shown.op = "updateEnsembleDisplay"
    /\ shown.time = Sec(40)
    /\ trackData.title = RotationTrack.title
    /\ triggered = <<Sec(5), Sec(10), Sec(20), Sec(30), Sec(40)>>
    /\ recentSoloists = <<S, R, Q>>

----------------------------------------------------------------------------
(* Properties of the player and the state machine under concurrency *)

\* A step starts a playSong: one more getSong is awaited after it than before.
StartsPlaySong ==
    \E s \in Slugs, awaited \in BOOLEAN :
        CopiesIn(GetSong(s, awaited), pending') > CopiesIn(GetSong(s, awaited), pending)

\* C26: a playNext that finds the queue empty while the current ensemble has
\* a bandmate whose connections include a playable song switches to a
\* bandmate and starts playing a song in the same call.
C26_BandmateSongPlayed ==
    [][(/\ last'.op \in {"playNext:await", "playNext:end"}
        /\ queue = <<>>
        /\ getBandmates # {}
        /\ \E response \in PlayerResponses : playableSongs(response.items) # <<>>)
       => (followingMusician' \in getBandmates /\ StartsPlaySong)]_vars

\* No lookup is in flight.
NoLookupInFlight == \A task \in BagToSet(pending) : task.k # "lookup"

\* C27: once no lookup is in flight, a nextSong that is present names the
\* musician followed.
C27_NextSongOfFollowedMusician ==
    (NoLookupInFlight /\ nextSong # NoSong) => nextSong.viaMusician = followingMusician

\* C28: the slug playNext pops is, when it is popped, neither played nor the
\* current song.
C28_PoppedSlugNotStale ==
    [][(last'.op = "playNext:await") =>
           (popped \notin playedSongs /\ popped # currentSongSlug)]_vars

\* C29: a queue that is not empty has at its head the slug of nextSong.
C29_QueueHeadIsNextSong ==
    queue # <<>> => Head(queue) = nextSong.songSlug

\* C30: a playPrevious on a history that is not empty leaves, once the
\* playSong it awaits has returned, a history shorter than before the call.
\* Here the call is the only one under way and took one entry of a history
\* of two or more, so that the step is the return of its playSong and the
\* history before the call had one entry more than before the step.
C30_PlayPreviousShortensHistory ==
    [][(/\ last.op = "playPrevious"
        /\ Len(history) >= 1
        /\ BagCardinality(pending) = 1
        /\ last'.op = "playSong")
       => Len(history') < Len(history) + 1]_vars

====
